---- MODULE Spec2Model ----
(***************************************************************************)
(* A model of the OpenAI-compatible gateway in front of Vertex AI:         *)
(*   - the streaming loop of the chat-completions route (SpecStream),      *)
(*   - the normalisation of a native non-streaming response                *)
(*     (SpecNormalize),                                                    *)
(*   - validateMessages (SpecValidate),                                    *)
(*   - the task-continuation heuristic (SpecContinuation),                 *)
(*   - the route handler and the native service with its multi-tool        *)
(*     fallback, on one long-lived service instance (Spec, SpecService),   *)
(*   - the sampling parameters of the outgoing request (SpecSampling),     *)
(*   - the streaming of a third-party completion (SpecMockStream),         *)
(*   - the streaming loop with a caller that disconnects                   *)
(*     (SpecStreamClient),                                                 *)
(*   - the tool-usage history over many fallback selections                *)
(*     (SpecRotation),                                                     *)
(*   - calculateCompletionLevel (SpecCompletion),                          *)
(*   - extractMessageContent (SpecExtract),                                *)
(*   - several requests in flight on the one instance (SpecInFlight).      *)
(*                                                                         *)
(* JavaScript strings whose characters the code inspects (split,           *)
(* includes, startsWith, toLowerCase, trim) are sequences of one-character *)
(* strings.  Strings the code only compares (roles, tool names, finish     *)
(* reasons) are TLA+ strings.                                              *)
(***************************************************************************)
EXTENDS Integers, Sequences, FiniteSets, TLC

VARIABLES
    \* ---- streaming loop of the route handler (chatRoutes.js 145-269)
    streamPc,          \* "loop" | "ended"
    frames,            \* what res.write has sent, in order
    words,             \* words of the current chunk's text still to be written
    toolCalls,         \* let toolCalls = []  (names of the last chunk's calls)
    upstreamText,      \* concatenation of the texts the upstream has yielded
    upstreamCalls,     \* number of function-call parts the upstream has yielded
    upstreamFailed,    \* the upstream iterator threw
    writeFailed,       \* a res.write of the streaming branch threw
    chunksRead,        \* chunks consumed so far
    \* ---- pure operations: the value handed in and the value that came out
    input,
    output,
    \* ---- route handler and native service (chatRoutes.js 31-315,
    \*      vertexService.js 6-173)
    pc,                \* "idle" | "call1" | "call2" | "done"
    req,               \* the request being handled
    calls,             \* the backend generate calls issued for this request
    resp,              \* the HTTP response of this request
    thrown,            \* the error that left generateChatCompletion, or NoError
    toolRotationState, \* this.toolRotationState of the service instance
    selections,        \* fallback selections made so far on this instance
    selectionLog,      \* names of the tools those selections selected, in order
    inflight           \* the requests in flight together on the instance

vars == <<streamPc, frames, words, toolCalls, upstreamText, upstreamCalls,
          upstreamFailed, writeFailed, chunksRead, input, output, pc, req, calls, resp,
          thrown, toolRotationState, selections, selectionLog, inflight>>

streamVars == <<streamPc, frames, words, toolCalls, upstreamText,
                upstreamCalls, upstreamFailed, writeFailed, chunksRead>>
pureVars == <<input, output>>
routeVars ==
    <<pc, req, calls, resp, thrown, toolRotationState, selections, selectionLog,
      inflight>>

-----------------------------------------------------------------------------
(* Bounds of the model.                                                    *)

MaxTextLen == 2
MaxParts == 2
MaxChunks == 2
MaxMsgs == 2
MaxSelections == 3

-----------------------------------------------------------------------------
(* Strings as sequences of characters.                                     *)

SeqsUpTo(S, n) == UNION {[1..k -> S] : k \in 0..n}

RECURSIVE Flatten(_)
Flatten(ss) == IF ss = <<>> THEN <<>> ELSE Head(ss) \o Flatten(Tail(ss))

\* String.prototype.startsWith
StartsWith(s, p) == Len(p) <= Len(s) /\ SubSeq(s, 1, Len(p)) = p

\* String.prototype.includes
Includes(s, sub) ==
    \E i \in 0..(Len(s) - Len(sub)) : SubSeq(s, i + 1, i + Len(sub)) = sub

\* String.prototype.split with a one-character separator: the pieces
\* between consecutive separators; "" splits to [""].
Split(s, sep) ==
    LET at == SelectSeq([i \in 1..Len(s) |-> i], LAMBDA i : s[i] = sep)
        cut == <<0>> \o at \o <<Len(s) + 1>>
    IN  [k \in 1..(Len(cut) - 1) |-> SubSeq(s, cut[k] + 1, cut[k + 1] - 1)]

\* Array.prototype.join with a one-character separator
RECURSIVE Join(_, _)
Join(ss, sep) ==
    IF ss = <<>> THEN <<>>
    ELSE IF Len(ss) = 1 THEN Head(ss)
    ELSE Head(ss) \o <<sep>> \o Join(Tail(ss), sep)

\* String.prototype.trim (the only white space of the model is the blank)
RECURSIVE TrimLeft(_)
TrimLeft(s) == IF s # <<>> /\ Head(s) = " " THEN TrimLeft(Tail(s)) ELSE s

RECURSIVE TrimRight(_)
TrimRight(s) ==
    IF s # <<>> /\ s[Len(s)] = " " THEN TrimRight(SubSeq(s, 1, Len(s) - 1)) ELSE s

Trim(s) == TrimRight(TrimLeft(s))

\* String.prototype.toLowerCase on the letters the model uses
LowerChar(c) ==
    CASE c = "F" -> "f"
      [] c = "R" -> "r"
      [] c = "A" -> "a"
      [] OTHER -> c

ToLowerCase(s) == [i \in 1..Len(s) |-> LowerChar(s[i])]

-----------------------------------------------------------------------------
(* JavaScript values of the fields whose shape the code tests.             *)

Undefined == [t |-> "undefined"]
Null == [t |-> "null"]
Str(cs) == [t |-> "string", c |-> cs]
Arr(items) == [t |-> "array", a |-> items]
Obj(text, content) == [t |-> "object", text |-> text, content |-> content]

\* ToBoolean: undefined, null and '' are falsy; arrays and objects are truthy.
Truthy(v) ==
    CASE v.t = "undefined" -> FALSE
      [] v.t = "null" -> FALSE
      [] v.t = "string" -> v.c # <<>>
      [] OTHER -> TRUE

-----------------------------------------------------------------------------
(* Values of the variables a specification does not use.                   *)

StreamIdle ==
    /\ streamPc = "idle" /\ frames = <<>> /\ words = <<>> /\ toolCalls = <<>>
    /\ upstreamText = <<>> /\ upstreamCalls = 0 /\ upstreamFailed = FALSE
    /\ writeFailed = FALSE
    /\ chunksRead = 0

PureIdle == input = "none" /\ output = [done |-> FALSE]

NoRequest == [model |-> "none"]
\* choices[0].message and finish_reason of a result the model does not look into
NoMessage == [role |-> "", content |-> <<>>, finish_reason |-> ""]
NoResponse == [status |-> 0, type |-> "", body |-> "", message |-> NoMessage]
NoError == <<>>

\* constructor(): the rotation state of a fresh service instance
NewToolRotationState == [lastUsedToolIndex |-> -1, toolUsageHistory |-> <<>>]

RouteIdle ==
    /\ pc = "idle" /\ req = NoRequest /\ calls = <<>> /\ resp = NoResponse
    /\ thrown = NoError /\ toolRotationState = NewToolRotationState
    /\ selections = 0 /\ selectionLog = <<>> /\ inflight = <<>>

-----------------------------------------------------------------------------
(* The streaming branch of POST /chat/completions.                         *)

Alphabet == {"a", " "}
Texts == SeqsUpTo(Alphabet, MaxTextLen)
CallNames == {"", "get_x"}        \* "" : the part has no functionCall

\* One part of candidate.content.parts: its text ('' when absent) and the
\* name of its functionCall ("" when absent).
Parts == [text : Texts, functionCall : CallNames]

\* The chunks an upstream iterator can yield: an object with a text()
\* accessor, a native chunk with candidates[0].content.parts, or an object
\* with a text property.
Chunks ==
    [shape : {"textFn", "textProp"}, text : Texts, parts : {<<>>}]
    \cup [shape : {"candidates"}, text : {<<>>}, parts : SeqsUpTo(Parts, MaxParts)]

\* let text = '' ... (lines 162-187): the text the loop takes from a chunk
ChunkText(chunk) ==
    CASE chunk.shape = "textFn" -> chunk.text
      [] chunk.shape = "candidates" ->
            IF chunk.parts # <<>> THEN chunk.parts[1].text ELSE <<>>
      [] OTHER -> chunk.text

\* let chunkToolCalls = null ... (lines 163-184): names of the calls taken
\* from a chunk, <<>> for null
ChunkToolCalls(chunk) ==
    IF /\ chunk.shape = "candidates"
       /\ chunk.parts # <<>>
       /\ chunk.parts[1].functionCall # ""
    THEN <<chunk.parts[1].functionCall>>
    ELSE <<>>

\* for (const part of candidate.content.parts) if (part.text) text += part.text
RECURSIVE CandidateText(_)
CandidateText(parts) ==
    IF parts = <<>> THEN <<>> ELSE Head(parts).text \o CandidateText(Tail(parts))

\* for (const part of ...) if (part.functionCall) toolCalls.push(...)
RECURSIVE CandidateCalls(_)
CandidateCalls(parts) ==
    IF parts = <<>> THEN <<>>
    ELSE (IF Head(parts).functionCall # "" THEN <<Head(parts).functionCall>> ELSE <<>>)
         \o CandidateCalls(Tail(parts))

\* the text and the calls a chunk carries, whatever its shape
CarriedText(chunk) ==
    IF chunk.shape = "candidates" THEN CandidateText(chunk.parts) ELSE chunk.text

CarriedCalls(chunk) ==
    IF chunk.shape = "candidates" THEN CandidateCalls(chunk.parts) ELSE <<>>

\* const words = text.split(' '); word = words[i] + (i < words.length - 1 ? ' ' : '')
WordsOf(text) ==
    LET ws == Split(text, " ")
    IN  [i \in 1..Len(ws) |-> ws[i] \o (IF i < Len(ws) THEN <<" ">> ELSE <<>>)]

\* The frames res.write sends: a chat.completion.chunk with its delta and
\* finish_reason ("null" for null), or the [DONE] line.
ToolCallFrame(names) ==
    [data |-> "chunk", hasContent |-> FALSE, content |-> <<>>,
     tool_calls |-> names, finish_reason |-> "null"]

ContentFrame(word) ==
    [data |-> "chunk", hasContent |-> TRUE, content |-> word,
     tool_calls |-> <<>>, finish_reason |-> "null"]

\* finish_reason: toolCalls.length > 0 ? 'tool_calls' : 'stop'
FinalFinishReason(tc) == IF Len(tc) > 0 THEN "tool_calls" ELSE "stop"

FinalFrame(tc) ==
    [data |-> "chunk", hasContent |-> FALSE, content |-> <<>>,
     tool_calls |-> <<>>, finish_reason |-> FinalFinishReason(tc)]

DoneFrame ==
    [data |-> "[DONE]", hasContent |-> FALSE, content |-> <<>>,
     tool_calls |-> <<>>, finish_reason |-> "null"]

StreamInit ==
    /\ streamPc = "loop" /\ frames = <<>> /\ words = <<>> /\ toolCalls = <<>>
    /\ upstreamText = <<>> /\ upstreamCalls = 0 /\ upstreamFailed = FALSE
    /\ writeFailed = FALSE
    /\ chunksRead = 0
    /\ PureIdle /\ RouteIdle

\* One iteration of `for await (const chunk of result.stream)` up to its
\* first await: the tool-call frame, then the first word of the text.
ReadChunk(chunk) ==
    /\ streamPc = "loop" /\ words = <<>>
    /\ LET text == ChunkText(chunk)
           ctc == ChunkToolCalls(chunk)
           afterCalls == IF ctc # <<>> THEN Append(frames, ToolCallFrame(ctc))
                         ELSE frames
       IN  /\ toolCalls' = IF ctc # <<>> THEN ctc ELSE toolCalls
           /\ IF text # <<>>
              THEN /\ frames' = Append(afterCalls, ContentFrame(Head(WordsOf(text))))
                   /\ words' = Tail(WordsOf(text))
              ELSE /\ frames' = afterCalls
                   /\ words' = <<>>
    /\ upstreamText' = upstreamText \o CarriedText(chunk)
    /\ upstreamCalls' = upstreamCalls + Len(CarriedCalls(chunk))
    /\ chunksRead' = chunksRead + 1
    /\ UNCHANGED <<streamPc, upstreamFailed, writeFailed>>

\* the upstream of a native model yields a chunk
StreamRead(chunk) == chunksRead < MaxChunks /\ ReadChunk(chunk)

\* After the 50 ms timer: the next word of the same chunk.
StreamWord ==
    /\ streamPc = "loop" /\ words # <<>>
    /\ frames' = Append(frames, ContentFrame(Head(words)))
    /\ words' = Tail(words)
    /\ UNCHANGED <<streamPc, toolCalls, upstreamText, upstreamCalls,
                   upstreamFailed, writeFailed, chunksRead>>

\* The iterator is exhausted: final chunk, [DONE], res.end() (lines 238-253).
StreamEnd ==
    /\ streamPc = "loop" /\ words = <<>>
    /\ frames' = frames \o <<FinalFrame(toolCalls), DoneFrame>>
    /\ streamPc' = "ended"
    /\ UNCHANGED <<words, toolCalls, upstreamText, upstreamCalls,
                   upstreamFailed, writeFailed, chunksRead>>

\* The iterator rejects: catch (streamError) { logger.error; res.end() }.
StreamThrow ==
    /\ streamPc = "loop" /\ words = <<>>
    /\ upstreamFailed' = TRUE
    /\ streamPc' = "ended"
    /\ UNCHANGED <<frames, words, toolCalls, upstreamText, upstreamCalls,
                   writeFailed, chunksRead>>

StreamNext ==
    /\ UNCHANGED <<pureVars, routeVars>>
    /\ \/ \E chunk \in Chunks : StreamRead(chunk)
       \/ StreamWord
       \/ StreamEnd
       \/ StreamThrow

SpecStream == StreamInit /\ [][StreamNext]_vars

\* Content deltas of the frames written so far, concatenated in order.
RECURSIVE ContentOf(_)
ContentOf(fs) ==
    IF fs = <<>> THEN <<>>
    ELSE (IF Head(fs).hasContent THEN Head(fs).content ELSE <<>>) \o ContentOf(Tail(fs))

IsTerminalFrame(f) ==
    f.data = "chunk" /\ ~f.hasContent /\ f.tool_calls = <<>> /\ f.finish_reason # "null"

\* C1: every ended streaming response ends with one terminal frame (empty
\* delta, non-null finish_reason) immediately followed by [DONE], also when
\* the upstream iterator failed part-way.
C1_EndsWithTerminalAndDone ==
    streamPc = "ended" =>
        /\ Len(frames) >= 2
        /\ frames[Len(frames)] = DoneFrame
        /\ IsTerminalFrame(frames[Len(frames) - 1])
        /\ \A i \in 1..(Len(frames) - 2) :
              frames[i] # DoneFrame /\ ~IsTerminalFrame(frames[i])

\* C2: for an upstream of text chunks only (no function call, no failure)
\* the content deltas concatenate to the upstream texts, every content frame
\* has finish_reason null, and exactly one terminal frame with finish_reason
\* stop follows them, then [DONE].
C2_TextStreamRoundTrip ==
    (streamPc = "ended" /\ ~upstreamFailed /\ upstreamCalls = 0) =>
        /\ ContentOf(frames) = upstreamText
        /\ Len(frames) >= 2
        /\ frames[Len(frames)] = DoneFrame
        /\ frames[Len(frames) - 1] = FinalFrame(<<>>)
        /\ \A i \in 1..(Len(frames) - 2) :
              frames[i].hasContent /\ frames[i].finish_reason = "null"

-----------------------------------------------------------------------------
(* generateNonStreamingResponse: a native response to the OpenAI shape.    *)

\* candidate.finishReason as the backend sends it; "" when absent
FinishSignals == {"", "STOP", "MAX_TOKENS", "SAFETY", "RECITATION"}

\* result.response: with candidates[0] (its content.parts, or no content),
\* or without candidates and then with a text() accessor, a text property
\* or neither.
Responses ==
    [shape : {"candidates"}, hasContent : BOOLEAN,
     parts : SeqsUpTo(Parts, MaxParts), finishReason : FinishSignals,
     text : {<<>>}]
    \cup [shape : {"textFn", "textProp", "other"}, hasContent : {FALSE},
          parts : {<<>>}, finishReason : {""}, text : Texts]

PartsOf(response) == IF response.hasContent THEN response.parts ELSE <<>>

\* let finishReason = 'stop'; ... finishReason = 'tool_calls' on each
\* functionCall part (lines 507-533)
FinishReasonFromParts(parts) ==
    IF CandidateCalls(parts) # <<>> THEN "tool_calls" ELSE "stop"

\* the mapping without the token-limit row
MapFinishSignal_NoLength(signal, calls_, current) ==
    CASE signal = "" -> current
      [] signal = "STOP" -> (IF Len(calls_) > 0 THEN "tool_calls" ELSE "stop")
      [] signal = "SAFETY" -> "content_filter"
      [] OTHER -> "stop"

\* if (candidate.finishReason) switch (...) (lines 535-550)
MapFinishSignal(signal, calls_, current) ==
    CASE signal = "" -> current
      [] signal = "STOP" -> (IF Len(calls_) > 0 THEN "tool_calls" ELSE "stop")
      [] signal = "MAX_TOKENS" -> "length"
      [] signal = "SAFETY" -> "content_filter"
      [] OTHER -> "stop"

\* JSON.stringify(response) of a response with neither candidates nor text
StringifiedResponse == <<"{", "}">>

\* the fallback for other response formats (lines 551-560)
FallbackText(response) ==
    CASE response.shape = "textFn" -> response.text
      [] response.shape = "textProp" /\ response.text # <<>> -> response.text
      [] OTHER -> StringifiedResponse

\* lines 505-597: the choice of the returned chat.completion; content is
\* `text || null`, tool_calls is set only when there are calls
NormalizeResponse(response) ==
    IF response.shape = "candidates"
    THEN LET parts == PartsOf(response)
             text == CandidateText(parts)
             tcs == CandidateCalls(parts)
         IN  [done |-> TRUE,
              role |-> "assistant",
              content |-> IF text # <<>> THEN Str(text) ELSE Null,
              tool_calls |-> tcs,
              finish_reason |->
                  MapFinishSignal(response.finishReason, tcs,
                                  FinishReasonFromParts(parts))]
    ELSE [done |-> TRUE,
          role |-> "assistant",
          content |-> IF FallbackText(response) # <<>>
                      THEN Str(FallbackText(response)) ELSE Null,
          tool_calls |-> <<>>,
          finish_reason |-> "stop"]

NotDone == [done |-> FALSE]

NormalizeInit ==
    /\ input \in Responses /\ output = NotDone
    /\ StreamIdle /\ RouteIdle

\* generateContent resolved with `input`; the response is normalised
GenerateNonStreamingResponse ==
    /\ ~output.done
    /\ output' = NormalizeResponse(input)
    /\ UNCHANGED <<input, streamVars, routeVars>>

SpecNormalize == NormalizeInit /\ [][GenerateNonStreamingResponse]_vars

HasFunctionCall(response) ==
    response.shape = "candidates" /\ CandidateCalls(PartsOf(response)) # <<>>

\* C3: whenever the first candidate has a functionCall part the normalized
\* finish_reason is tool_calls, whatever the backend's finish signal.
C3_ToolCallsOverrideSignal ==
    (output.done /\ HasFunctionCall(input)) => output.finish_reason = "tool_calls"

\* C4: without a functionCall part the finish signal maps STOP to stop,
\* MAX_TOKENS to length, SAFETY to content_filter, anything else or nothing
\* to stop; and every normalized finish_reason is one of the four reasons.
C4_FinishReasonMapping ==
    output.done =>
        /\ output.finish_reason \in {"stop", "length", "tool_calls", "content_filter"}
        /\ (input.shape = "candidates" /\ ~HasFunctionCall(input)) =>
              output.finish_reason =
                  (CASE input.finishReason = "STOP" -> "stop"
                     [] input.finishReason = "MAX_TOKENS" -> "length"
                     [] input.finishReason = "SAFETY" -> "content_filter"
                     [] OTHER -> "stop")

C4_Witness ==
    /\ output.done /\ input.shape = "candidates" /\ ~HasFunctionCall(input)
    /\ input.finishReason = "MAX_TOKENS" /\ output.finish_reason = "length"
    /\ input.hasContent /\ Len(input.parts) = 2


-----------------------------------------------------------------------------
(* Messages of a conversation.                                             *)

\* role: "" when missing or empty.  content, tool_call_id, tool_calls: a
\* JavaScript value; tool_calls is an array of tool calls when present.
\* A tool call: id (a JavaScript value), type ("" when missing), function
\* (hasFunction), function.name ("" when missing) and function.arguments
\* ("" when missing or empty, else the JSON text).
Msg(role, content, tool_call_id, tool_calls) ==
    [role |-> role, content |-> content, tool_call_id |-> tool_call_id,
     tool_calls |-> tool_calls]

ToolCall(id, type, hasFunction, name, arguments) ==
    [id |-> id, type |-> type, hasFunction |-> hasFunction, name |-> name,
     arguments |-> arguments]

\* an element {type: 'text', text} of a content array
TextPart(cs) == [t |-> "object", type |-> "text", text |-> Str(cs)]

Hi == <<"h", "i">>
IdCall1 == <<"c", "_", "1">>
IdCall9 == <<"c", "_", "9">>
IdReadFile ==
    <<"b", "u", "i", "l", "t", "i", "n", "_", "r", "e", "a", "d", "_",
      "f", "i", "l", "e">>

ValidRoles == {"system", "user", "assistant", "tool"}

\* the body of the loop without the check of the role's value
ValidateMessage_AnyRole(m) ==
    IF m.role = "" THEN "Each message must have a role property"
    ELSE IF m.role = "tool"
    THEN IF ~Truthy(m.content) THEN "Tool messages must have content"
         ELSE IF ~Truthy(m.tool_call_id) THEN "Tool messages must have tool_call_id"
         ELSE ""
    ELSE IF m.role = "assistant" /\ Truthy(m.tool_calls)
    THEN IF m.tool_calls.t # "array" THEN "tool_calls must be an array"
         ELSE LET tcs == m.tool_calls.a
                  Bad(tc) ==
                      IF ~Truthy(tc.id) \/ tc.type = "" \/ ~tc.hasFunction
                      THEN "Each tool call must have id, type, and function properties"
                      ELSE IF tc.type # "function"
                      THEN "Only function tool calls are supported"
                      ELSE IF tc.name = ""
                      THEN "Function tool calls must have a name"
                      ELSE ""
                  firstBad == {i \in 1..Len(tcs) :
                                  /\ Bad(tcs[i]) # ""
                                  /\ \A j \in 1..(i - 1) : Bad(tcs[j]) = ""}
              IN  IF firstBad = {} THEN ""
                  ELSE Bad(tcs[CHOOSE i \in firstBad : TRUE])
    ELSE IF ~Truthy(m.content) THEN "Messages must have content property"
    ELSE IF m.content.t # "string" /\ m.content.t # "array"
    THEN "Message content must be a string or array"
    ELSE ""

\* validateMessages, the body of the loop (lines 307-358): the message of
\* the Error thrown for one message, "" when it passes
ValidateMessage(m) ==
    IF m.role = "" THEN "Each message must have a role property"
    ELSE IF m.role \notin ValidRoles
    THEN "Message role must be system, user, assistant, or tool"
    ELSE IF m.role = "tool"
    THEN IF ~Truthy(m.content) THEN "Tool messages must have content"
         ELSE IF ~Truthy(m.tool_call_id) THEN "Tool messages must have tool_call_id"
         ELSE ""
    ELSE IF m.role = "assistant" /\ Truthy(m.tool_calls)
    THEN IF m.tool_calls.t # "array" THEN "tool_calls must be an array"
         ELSE LET tcs == m.tool_calls.a
                  Bad(tc) ==
                      IF ~Truthy(tc.id) \/ tc.type = "" \/ ~tc.hasFunction
                      THEN "Each tool call must have id, type, and function properties"
                      ELSE IF tc.type # "function"
                      THEN "Only function tool calls are supported"
                      ELSE IF tc.name = ""
                      THEN "Function tool calls must have a name"
                      ELSE ""
                  firstBad == {i \in 1..Len(tcs) :
                                  /\ Bad(tcs[i]) # ""
                                  /\ \A j \in 1..(i - 1) : Bad(tcs[j]) = ""}
              IN  IF firstBad = {} THEN ""
                  ELSE Bad(tcs[CHOOSE i \in firstBad : TRUE])
    ELSE IF ~Truthy(m.content) THEN "Messages must have content property"
    ELSE IF m.content.t # "string" /\ m.content.t # "array"
    THEN "Message content must be a string or array"
    ELSE ""

\* validateMessages (lines 298-361): "true" or the thrown Error
ValidateMessages(messages) ==
    IF messages.t # "array"
    THEN [done |-> TRUE, result |-> "throw", error |-> "Messages must be an array"]
    ELSE IF Len(messages.a) = 0
    THEN [done |-> TRUE, result |-> "throw",
          error |-> "Messages array cannot be empty"]
    ELSE LET ms == messages.a
             firstBad == {i \in 1..Len(ms) :
                             /\ ValidateMessage(ms[i]) # ""
                             /\ \A j \in 1..(i - 1) : ValidateMessage(ms[j]) = ""}
         IN  IF firstBad = {}
             THEN [done |-> TRUE, result |-> "true", error |-> ""]
             ELSE [done |-> TRUE, result |-> "throw",
                   error |-> ValidateMessage(ms[CHOOSE i \in firstBad : TRUE])]

\* The messages validateMessages is tried on.
ValContents ==
    {Undefined, Null, Str(<<>>), Str(Hi), Arr(<<>>), Arr(<<TextPart(Hi)>>),
     Obj(Str(Hi), Undefined)}

ValToolCalls ==
    {ToolCall(id, type, hasFunction, name, "") :
        id \in {Undefined, Str(IdCall1)},
        type \in {"", "function", "retrieval"},
        hasFunction \in BOOLEAN,
        name \in {"", "builtin_read_file"}}

GoodToolCall == ToolCall(Str(IdCall1), "function", TRUE, "builtin_read_file", "")

ValMessages ==
    {Msg(role, Str(Hi), Undefined, Undefined) : role \in {"", "bogus"}}
    \cup {Msg(role, content, Undefined, Undefined) :
            role \in {"system", "user", "assistant"}, content \in ValContents}
    \cup {Msg("tool", content, id, Undefined) :
            content \in {Undefined, Str(<<>>), Str(Hi), Arr(<<>>)},
            id \in {Undefined, Str(<<>>), Str(IdCall1)}}
    \cup {Msg("assistant", Undefined, Undefined, Arr(<<tc>>)) : tc \in ValToolCalls}
    \cup {Msg("assistant", Undefined, Undefined, Arr(<<GoodToolCall, tc>>)) :
            tc \in {GoodToolCall,
                    ToolCall(Str(IdCall9), "function", TRUE, "", "")}}
    \cup {Msg("assistant", content, Undefined, tcs) :
            content \in {Undefined, Str(Hi)}, tcs \in {Arr(<<>>), Str(Hi)}}

ValInputs ==
    {Undefined, Obj(Undefined, Undefined)}
    \cup {Arr(ms) : ms \in SeqsUpTo(ValMessages, MaxMsgs)}

ValidateInit ==
    /\ input \in ValInputs /\ output = NotDone
    /\ StreamIdle /\ RouteIdle

CallValidateMessages ==
    /\ ~output.done
    /\ output' = ValidateMessages(input)
    /\ UNCHANGED <<input, streamVars, routeVars>>

SpecValidate == ValidateInit /\ [][CallValidateMessages]_vars

\* what the claim calls lacking: absent, null or the empty string
Lacking(v) == v \in {Undefined, Null, Str(<<>>)}

LacksToolCallField(tc) ==
    \/ Lacking(tc.id)
    \/ tc.type # "function"
    \/ ~tc.hasFunction
    \/ tc.name = ""

\* the rules of the message normalizer, as the specification words them
WellFormedMessage(m) ==
    /\ m.role \in ValidRoles
    /\ m.role = "tool" =>
          /\ m.content.t \in {"string", "array", "object"} /\ ~Lacking(m.content)
          /\ m.tool_call_id.t = "string" /\ ~Lacking(m.tool_call_id)
    /\ (m.role = "assistant" /\ m.tool_calls.t = "array") =>
          \A i \in 1..Len(m.tool_calls.a) : ~LacksToolCallField(m.tool_calls.a[i])
    /\ (m.role # "tool" /\ ~(m.role = "assistant" /\ m.tool_calls.t = "array")) =>
          /\ m.tool_calls = Undefined
          /\ \/ m.content.t = "string" /\ m.content.c # <<>>
             \/ m.content.t = "array" /\ m.content.a # <<>>

\* C9: validateMessages throws for a non-array or empty messages value, for
\* a role that is missing or not one of the four, for a tool message lacking
\* content or tool_call_id, for an assistant tool call lacking id, type
\* function or function.name; it never returns false and returns true when
\* every message is well formed (assistant tool calls need no content).
C9_ValidateMessages ==
    output.done =>
        /\ output.result \in {"true", "throw"}
        /\ (input.t # "array" \/ (input.t = "array" /\ input.a = <<>>)) =>
              output.result = "throw"
        /\ input.t = "array" =>
              /\ (\E i \in 1..Len(input.a) :
                    LET m == input.a[i]
                    IN  \/ m.role \notin ValidRoles
                        \/ m.role = "tool" /\ (Lacking(m.content) \/ Lacking(m.tool_call_id))
                        \/ /\ m.role = "assistant" /\ m.tool_calls.t = "array"
                           /\ \E k \in 1..Len(m.tool_calls.a) :
                                 LacksToolCallField(m.tool_calls.a[k]))
                  => output.result = "throw"
              /\ (input.a # <<>> /\ \A i \in 1..Len(input.a) : WellFormedMessage(input.a[i]))
                  => output.result = "true"

C9_Witness ==
    /\ output.done /\ output.result = "true"
    /\ input = Arr(<<Msg("system", Str(Hi), Undefined, Undefined),
                     Msg("user", Str(Hi), Undefined, Undefined)>>)

-----------------------------------------------------------------------------
(* TaskContinuationService: should the agent loop go on after a tool       *)
(* result?                                                                 *)

MaxConv == 3

\* the words the heuristic looks for, and the tool names it switches on
K_fix == <<"f", "i", "x">>
K_bug == <<"b", "u", "g">>
K_error == <<"e", "r", "r", "o", "r">>
K_add == <<"a", "d", "d">>
K_implement == <<"i", "m", "p", "l", "e", "m", "e", "n", "t">>
K_create == <<"c", "r", "e", "a", "t", "e">>
K_refactor == <<"r", "e", "f", "a", "c", "t", "o", "r">>
K_improve == <<"i", "m", "p", "r", "o", "v", "e">>
K_optimize == <<"o", "p", "t", "i", "m", "i", "z", "e">>
K_test == <<"t", "e", "s", "t">>
K_spec == <<"s", "p", "e", "c">>
K_edit == <<"e", "d", "i", "t">>
K_modify == <<"m", "o", "d", "i", "f", "y">>
K_update == <<"u", "p", "d", "a", "t", "e">>
K_change == <<"c", "h", "a", "n", "g", "e">>
K_analyze == <<"a", "n", "a", "l", "y", "z", "e">>
K_setup == <<"s", "e", "t", "u", "p">>
K_install == <<"i", "n", "s", "t", "a", "l", "l">>
K_failed == <<"f", "a", "i", "l", "e", "d">>

N_read_file ==
    <<"b", "u", "i", "l", "t", "i", "n", "_", "r", "e", "a", "d", "_",
      "f", "i", "l", "e">>
N_list_directory ==
    <<"b", "u", "i", "l", "t", "i", "n", "_", "l", "i", "s", "t", "_",
      "d", "i", "r", "e", "c", "t", "o", "r", "y">>
N_search_files ==
    <<"b", "u", "i", "l", "t", "i", "n", "_", "s", "e", "a", "r", "c",
      "h", "_", "f", "i", "l", "e", "s">>
N_run_terminal_command ==
    <<"b", "u", "i", "l", "t", "i", "n", "_", "r", "u", "n", "_", "t",
      "e", "r", "m", "i", "n", "a", "l", "_", "c", "o", "m", "m", "a",
      "n", "d">>
BuiltinPrefix == <<"b", "u", "i", "l", "t", "i", "n", "_">>

\* texts of the conversations the heuristic is tried on
ReqFixBug == <<"F", "i", "x", " ", "b", "u", "g">>
ReqWhy == <<"w", "h", "y">>
OutCode == <<"x", "=", "1">>
OutError == <<"e", "r", "r", "o", "r">>
IdCallReadFile ==
    <<"c", "a", "l", "l", "_", "b", "u", "i", "l", "t", "i", "n", "_",
      "r", "e", "a", "d", "_", "f", "i", "l", "e", "_", "1">>

\* a tool declaration {type, function: {name}}
Tool(type, name) == [type |-> type, name |-> name]

\* findLastAssistantToolCall (lines 44-52): the index of the last assistant
\* message with a non-empty tool_calls, 0 for null
FindLastAssistantToolCall(ms) ==
    LET hits == {i \in 1..Len(ms) :
                    /\ ms[i].role = "assistant"
                    /\ ms[i].tool_calls.t = "array"
                    /\ Len(ms[i].tool_calls.a) > 0}
    IN  IF hits = {} THEN 0 ELSE CHOOSE i \in hits : \A j \in hits : j <= i

\* the search for tool results over the whole conversation
FindToolResults_Anywhere(ms, assistantIndex) ==
    LET ids == {ms[assistantIndex].tool_calls.a[k].id :
                    k \in 1..Len(ms[assistantIndex].tool_calls.a)}
    IN  SelectSeq([i \in 1..Len(ms) |-> i],
                  LAMBDA i : ms[i].role = "tool" /\ ms[i].tool_call_id \in ids)

\* findToolResults (lines 55-69): the indexes, in order, of the tool
\* messages after the assistant message that answer one of its calls
FindToolResults(ms, assistantIndex) ==
    LET ids == {ms[assistantIndex].tool_calls.a[k].id :
                    k \in 1..Len(ms[assistantIndex].tool_calls.a)}
    IN  SelectSeq([i \in 1..Len(ms) |-> i],
                  LAMBDA i : /\ i > assistantIndex
                             /\ ms[i].role = "tool"
                             /\ ms[i].tool_call_id \in ids)

\* extractToolNameFromResult (lines 135-147): the first part of
\* tool_call_id.split('_') that starts with 'builtin_', else 'unknown'
ExtractToolNameFromResult(toolResult) ==
    IF Truthy(toolResult.tool_call_id)
    THEN LET parts == Split(toolResult.tool_call_id.c, "_")
             hits == {i \in 1..Len(parts) : StartsWith(parts[i], BuiltinPrefix)}
         IN  IF hits = {} THEN <<"u", "n", "k", "n", "o", "w", "n">>
             ELSE parts[CHOOSE i \in hits : \A j \in hits : i <= j]
    ELSE <<"u", "n", "k", "n", "o", "w", "n">>

\* inferTaskTypeFromFileRead (lines 150-167)
InferTaskTypeFromFileRead(request) ==
    LET r == ToLowerCase(request)
    IN  IF Includes(r, K_fix) \/ Includes(r, K_bug) \/ Includes(r, K_error)
        THEN "debug_fix"
        ELSE IF Includes(r, K_add) \/ Includes(r, K_implement) \/ Includes(r, K_create)
        THEN "feature_add"
        ELSE IF Includes(r, K_refactor) \/ Includes(r, K_improve) \/ Includes(r, K_optimize)
        THEN "refactor"
        ELSE IF Includes(r, K_test) \/ Includes(r, K_spec)
        THEN "testing"
        ELSE "analysis"

\* shouldContinueAfterRead (lines 170-176)
ShouldContinueAfterRead(request) ==
    \E w \in {K_fix, K_edit, K_modify, K_add, K_implement, K_create, K_update,
              K_change, K_improve} : Includes(ToLowerCase(request), w)

HasTool(tools, name) == \E i \in 1..Len(tools) : tools[i].name = name

Step(tool, reason) == [tool |-> tool, reason |-> reason]

\* suggestNextStepsAfterRead (lines 179-211)
SuggestNextStepsAfterRead(request, tools) ==
    LET r == ToLowerCase(request)
    IN  (IF (Includes(r, K_fix) \/ Includes(r, K_bug))
            /\ HasTool(tools, "builtin_edit_existing_file")
         THEN <<Step("builtin_edit_existing_file", "Fix identified issues in the file")>>
         ELSE <<>>)
        \o (IF (Includes(r, K_add) \/ Includes(r, K_implement))
               /\ HasTool(tools, "builtin_edit_existing_file")
            THEN <<Step("builtin_edit_existing_file",
                        "Add requested functionality to the file")>>
            ELSE <<>>)
        \o (IF Includes(r, K_test) /\ HasTool(tools, "builtin_run_terminal_command")
            THEN <<Step("builtin_run_terminal_command", "Run tests to verify the changes")>>
            ELSE <<>>)

\* shouldContinueAfterList (lines 214-217)
ShouldContinueAfterList(request) ==
    LET r == ToLowerCase(request)
    IN  Includes(r, K_analyze) \/ Includes(r, K_fix) \/ Includes(r, K_modify)

\* suggestNextStepsAfterList, suggestNextStepsAfterSearch (lines 219-243)
SuggestReadFile(tools, reason) ==
    IF HasTool(tools, "builtin_read_file")
    THEN <<Step("builtin_read_file", reason)>> ELSE <<>>

\* shouldContinueAfterSearch (lines 230-232)
ShouldContinueAfterSearch(toolContent) == Len(toolContent) > 0

\* shouldContinueAfterCommand (lines 245-249)
ShouldContinueAfterCommand(request, toolContent) ==
    \/ Includes(toolContent, K_error) \/ Includes(toolContent, K_failed)
    \/ Includes(ToLowerCase(request), K_setup)
    \/ Includes(ToLowerCase(request), K_install)

\* suggestNextStepsAfterCommand (lines 251-262)
SuggestNextStepsAfterCommand(toolContent, tools) ==
    IF Includes(toolContent, K_error)
    THEN SuggestReadFile(tools, "Read configuration files to fix command errors")
    ELSE <<>>

\* calculateCompletionLevel (lines 265-284)
Min(a, b) == IF a <= b THEN a ELSE b

\* a level that does not saturate
CalculateCompletionLevel_Unbounded(taskType, toolCount) ==
    CASE taskType \in {"debug_fix", "feature_add"} -> toolCount * 25
      [] taskType = "analysis" -> toolCount * 50
      [] OTHER -> toolCount * 33

\* calculateCompletionLevel (lines 265-284)
CalculateCompletionLevel(taskType, toolCount) ==
    CASE taskType \in {"debug_fix", "feature_add"} -> Min(toolCount * 25, 100)
      [] taskType = "analysis" -> Min(toolCount * 50, 100)
      [] OTHER -> Min(toolCount * 33, 100)

\* `x.content || ''` of a message whose content is a string or absent
ContentOrEmpty(m) == IF Truthy(m.content) THEN m.content.c ELSE <<>>

\* one turn of the loop over the tool results (lines 85-119)
AnalyzeToolResult(analysis, toolResult, request, tools) ==
    LET toolName == ExtractToolNameFromResult(toolResult)
        toolContent == ContentOrEmpty(toolResult)
    IN  CASE toolName = N_read_file ->
              LET go == ShouldContinueAfterRead(request)
              IN  [analysis EXCEPT
                      !.taskType = InferTaskTypeFromFileRead(request),
                      !.needsContinuation = go,
                      !.suggestedNextSteps =
                          IF go THEN SuggestNextStepsAfterRead(request, tools) ELSE @]
          [] toolName = N_list_directory ->
              LET go == ShouldContinueAfterList(request)
              IN  [analysis EXCEPT
                      !.needsContinuation = go,
                      !.suggestedNextSteps =
                          IF go
                          THEN SuggestReadFile(tools,
                                   "Read relevant files from the directory listing")
                          ELSE @]
          [] toolName = N_search_files ->
              LET go == ShouldContinueAfterSearch(toolContent)
              IN  [analysis EXCEPT
                      !.needsContinuation = go,
                      !.suggestedNextSteps =
                          IF go
                          THEN SuggestReadFile(tools, "Read files found in search results")
                          ELSE @]
          [] toolName = N_run_terminal_command ->
              LET go == ShouldContinueAfterCommand(request, toolContent)
              IN  [analysis EXCEPT
                      !.needsContinuation = go,
                      !.suggestedNextSteps =
                          IF go THEN SuggestNextStepsAfterCommand(toolContent, tools)
                          ELSE @]
          [] OTHER -> analysis

RECURSIVE AnalyzeToolResults(_, _, _, _, _)
AnalyzeToolResults(analysis, ms, resultIndexes, request, tools) ==
    IF resultIndexes = <<>> THEN analysis
    ELSE AnalyzeToolResults(
             AnalyzeToolResult(analysis, ms[Head(resultIndexes)], request, tools),
             ms, Tail(resultIndexes), request, tools)

\* the content of the last user message, '' when there is none (lines 81-82)
OriginalRequest(ms) ==
    LET users == {i \in 1..Len(ms) : ms[i].role = "user"}
    IN  IF users = {} THEN <<>>
        ELSE ContentOrEmpty(ms[CHOOSE i \in users : \A j \in users : j <= i])

\* analyzeTaskCompleteness (lines 72-132)
AnalyzeTaskCompleteness(ms, resultIndexes, tools) ==
    LET start == [needsContinuation |-> FALSE, taskType |-> "unknown",
                  completionLevel |-> 0, suggestedNextSteps |-> <<>>]
        after == AnalyzeToolResults(start, ms, resultIndexes, OriginalRequest(ms), tools)
    IN  [after EXCEPT !.completionLevel =
            CalculateCompletionLevel(after.taskType, Len(resultIndexes))]

NoContinuation ==
    [done |-> TRUE, shouldContinue |-> FALSE, hasTaskState |-> FALSE,
     taskType |-> "", completionLevel |-> 0, nextSteps |-> <<>>, toolResults |-> 0]

\* analyzeTaskContinuation (lines 11-41); taskState null is hasTaskState FALSE
AnalyzeTaskContinuation(ms, tools) ==
    IF Len(ms) < 2 THEN NoContinuation
    ELSE LET a == FindLastAssistantToolCall(ms)
         IN  IF a = 0 THEN NoContinuation
             ELSE LET results == FindToolResults(ms, a)
                  IN  IF Len(results) = 0 THEN NoContinuation
                      ELSE LET t == AnalyzeTaskCompleteness(ms, results, tools)
                           IN  [done |-> TRUE,
                                shouldContinue |-> t.needsContinuation,
                                hasTaskState |-> TRUE,
                                taskType |-> t.taskType,
                                completionLevel |-> t.completionLevel,
                                nextSteps |-> t.suggestedNextSteps,
                                toolResults |-> Len(results)]

\* The conversations and tool lists the heuristic is tried on.
ReadFileCall(id) == ToolCall(Str(id), "function", TRUE, "builtin_read_file", "")

ToolCallIds == {IdCall1, IdReadFile, IdCallReadFile}

ContMessages ==
    {Msg("user", Str(text), Undefined, Undefined) : text \in {ReqFixBug, ReqWhy}}
    \cup {Msg("assistant", Undefined, Undefined, Arr(<<ReadFileCall(id)>>)) :
            id \in ToolCallIds}
    \cup {Msg("assistant", Str(Hi), Undefined, Undefined)}
    \cup {Msg("tool", Str(text), Str(id), Undefined) :
            text \in {OutCode, OutError}, id \in ToolCallIds}

ContTools ==
    {<<Tool("function", "builtin_read_file")>>,
     <<Tool("function", "builtin_read_file"),
       Tool("function", "builtin_edit_existing_file")>>}

ContinuationInit ==
    /\ input \in [messages : SeqsUpTo(ContMessages, MaxConv), tools : ContTools]
    /\ output = NotDone
    /\ StreamIdle /\ RouteIdle

CallAnalyzeTaskContinuation ==
    /\ ~output.done
    /\ output' = AnalyzeTaskContinuation(input.messages, input.tools)
    /\ UNCHANGED <<input, streamVars, routeVars>>

SpecContinuation == ContinuationInit /\ [][CallAnalyzeTaskContinuation]_vars

\* the conversation of the claim: the most recent assistant message carries
\* a read-file tool call, a tool message after it answers that call, and the
\* latest user message contains the action verb `fix`
ReadThenFix(ms) ==
    LET a == FindLastAssistantToolCall(ms)
    IN  /\ a > 0
        /\ \E k \in 1..Len(ms[a].tool_calls.a) :
              /\ ms[a].tool_calls.a[k].name = "builtin_read_file"
              /\ \E i \in (a + 1)..Len(ms) :
                    ms[i].role = "tool" /\ ms[i].tool_call_id = ms[a].tool_calls.a[k].id
        /\ Includes(ToLowerCase(OriginalRequest(ms)), K_fix)

\* C10: for such a conversation analyzeTaskContinuation returns
\* shouldContinue = true with taskType debug_fix and, when the edit tool is
\* among the tools, nextSteps holds an edit-tool suggestion.
C10_ContinueAfterRead ==
    (output.done /\ ReadThenFix(input.messages)) =>
        /\ output.shouldContinue
        /\ output.taskType = "debug_fix"
        /\ HasTool(input.tools, "builtin_edit_existing_file") =>
              \E i \in 1..Len(output.nextSteps) :
                  output.nextSteps[i].tool = "builtin_edit_existing_file"

\* the assistant messages that carry a non-empty tool_calls list
CarriesToolCalls(m) ==
    m.role = "assistant" /\ m.tool_calls.t = "array" /\ m.tool_calls.a # <<>>

\* some tool message after the most recent assistant message with tool
\* calls answers one of the calls of that message
LastCallsAnswered(ms) ==
    \E a \in 1..Len(ms) :
        /\ CarriesToolCalls(ms[a])
        /\ \A j \in (a + 1)..Len(ms) : ~CarriesToolCalls(ms[j])
        /\ \E i \in (a + 1)..Len(ms) :
              /\ ms[i].role = "tool"
              /\ \E k \in 1..Len(ms[a].tool_calls.a) :
                    ms[a].tool_calls.a[k].id = ms[i].tool_call_id

\* C11: analyzeTaskContinuation returns shouldContinue = false with a null
\* taskState when no assistant message carries a non-empty tool_calls list,
\* and when no tool message after the most recent such message answers one
\* of its calls; tool messages before it or with other ids do not count.
C11_NoContinuationWithoutResults ==
    (output.done /\ ~LastCallsAnswered(input.messages)) =>
        ~output.shouldContinue /\ ~output.hasTaskState

\* a matching tool message stands before the assistant message and a tool
\* message with another id after it
C11_Witness ==
    /\ output.done /\ ~output.hasTaskState /\ ~output.shouldContinue
    /\ Len(input.messages) = 3
    /\ input.messages[1] = Msg("tool", Str(OutCode), Str(IdCall1), Undefined)
    /\ input.messages[2] =
          Msg("assistant", Undefined, Undefined, Arr(<<ReadFileCall(IdCall1)>>))
    /\ input.messages[3] = Msg("tool", Str(OutCode), Str(IdReadFile), Undefined)

-----------------------------------------------------------------------------
(* Model registry (config/models.js), on the model ids of the requests.    *)

ModelIds ==
    {"", "gemini-pro", "text-bison", "claude-3-haiku-20240307",
     "llama-3-1-8b-instruct", "mistral-large-2407", "command-r", "gpt-4"}

\* getModelProvider: "" for null
GetModelProvider(modelId) ==
    CASE modelId \in {"gemini-pro", "text-bison"} -> "google"
      [] modelId = "claude-3-haiku-20240307" -> "anthropic"
      [] modelId = "llama-3-1-8b-instruct" -> "meta"
      [] modelId = "mistral-large-2407" -> "mistral"
      [] modelId = "command-r" -> "cohere"
      [] OTHER -> ""

\* supportsStreaming
SupportsStreaming(modelId) ==
    modelId \in {"gemini-pro", "claude-3-haiku-20240307", "llama-3-1-8b-instruct",
                 "mistral-large-2407"}

-----------------------------------------------------------------------------
(* Errors, by the text of their message.                                   *)

E_MultiTool ==
    <<"M", "u", "l", "t", "i", "p", "l", "e", " ", "t", "o", "o", "l",
      "s", " ", "a", "r", "e", " ", "s", "u", "p", "p", "o", "r", "t",
      "e", "d", " ", "o", "n", "l", "y", " ", "w", "h", "e", "n", " ",
      "t", "h", "e", "y", " ", "a", "r", "e", " ", "a", "l", "l", " ",
      "s", "e", "a", "r", "c", "h", " ", "t", "o", "o", "l", "s">>
E_Quota ==
    <<"q", "u", "o", "t", "a", " ", "e", "x", "c", "e", "e", "d", "e",
      "d">>
E_Auth ==
    <<"a", "u", "t", "h", "e", "n", "t", "i", "c", "a", "t", "i", "o",
      "n", " ", "f", "a", "i", "l", "e", "d">>
E_NotFound ==
    <<"r", "e", "s", "o", "u", "r", "c", "e", " ", "n", "o", "t", " ",
      "f", "o", "u", "n", "d">>
E_Other == <<"b", "o", "o", "m">>
E_Substring ==
    <<"C", "a", "n", "n", "o", "t", " ", "r", "e", "a", "d", " ", "p",
      "r", "o", "p", "e", "r", "t", "i", "e", "s", " ", "o", "f", " ",
      "u", "n", "d", "e", "f", "i", "n", "e", "d", " ", "(", "r", "e",
      "a", "d", "i", "n", "g", " ", "'", "s", "u", "b", "s", "t", "r",
      "i", "n", "g", "'", ")">>
E_ToLowerCase ==
    <<"c", "o", "n", "t", "e", "x", "t", ".", "t", "o", "L", "o", "w",
      "e", "r", "C", "a", "s", "e", " ", "i", "s", " ", "n", "o", "t",
      " ", "a", " ", "f", "u", "n", "c", "t", "i", "o", "n">>
E_NullLower ==
    <<"C", "a", "n", "n", "o", "t", " ", "r", "e", "a", "d", " ", "p",
      "r", "o", "p", "e", "r", "t", "i", "e", "s", " ", "o", "f", " ",
      "n", "u", "l", "l", " ", "(", "r", "e", "a", "d", "i", "n", "g",
      " ", "'", "t", "o", "L", "o", "w", "e", "r", "C", "a", "s", "e",
      "'", ")">>
E_Json ==
    <<"U", "n", "e", "x", "p", "e", "c", "t", "e", "d", " ", "t", "o",
      "k", "e", "n", " ", "b", " ", "i", "n", " ", "J", "S", "O", "N",
      " ", "a", "t", " ", "p", "o", "s", "i", "t", "i", "o", "n", " ",
      "1">>
E_Slice ==
    <<"m", "e", "s", "s", "a", "g", "e", "s", ".", "s", "l", "i", "c", "e", " ",
      "i", "s", " ", "n", "o", "t", " ", "a", " ", "f", "u", "n", "c", "t", "i",
      "o", "n">>
E_SubstringFn ==
    <<"c", "u", "r", "r", "e", "n", "t", "M", "e", "s", "s", "a", "g", "e", "?",
      ".", "c", "o", "n", "t", "e", "n", "t", "?", ".", "s", "u", "b", "s", "t",
      "r", "i", "n", "g", " ", "i", "s", " ", "n", "o", "t", " ", "a", " ", "f",
      "u", "n", "c", "t", "i", "o", "n">>
E_Name ==
    <<"C", "a", "n", "n", "o", "t", " ", "r", "e", "a", "d", " ", "p",
      "r", "o", "p", "e", "r", "t", "i", "e", "s", " ", "o", "f", " ",
      "u", "n", "d", "e", "f", "i", "n", "e", "d", " ", "(", "r", "e",
      "a", "d", "i", "n", "g", " ", "'", "n", "a", "m", "e", "'", ")">>

E_RateLimit ==
    <<"r", "a", "t", "e", " ", "l", "i", "m", "i", "t", " ", "r", "e",
      "a", "c", "h", "e", "d">>
E_Overloaded ==
    <<"T", "h", "e", " ", "m", "o", "d", "e", "l", " ", "i", "s", " ",
      "o", "v", "e", "r", "l", "o", "a", "d", "e", "d">>
E_ApiKey ==
    <<"A", "P", "I", " ", "k", "e", "y", " ", "n", "o", "t", " ", "v",
      "a", "l", "i", "d">>

\* the backend's failures of a generate call
BackendErrors ==
    {E_MultiTool, E_Quota, E_RateLimit, E_Auth, E_NotFound, E_Overloaded, E_ApiKey,
     E_Other}

T_authentication ==
    <<"a", "u", "t", "h", "e", "n", "t", "i", "c", "a", "t", "i", "o",
      "n">>
T_api_key == <<"A", "P", "I", " ", "k", "e", "y">>
T_quota == <<"q", "u", "o", "t", "a">>
T_rate_limit == <<"r", "a", "t", "e", " ", "l", "i", "m", "i", "t">>
T_not_found == <<"n", "o", "t", " ", "f", "o", "u", "n", "d">>
T_model == <<"m", "o", "d", "e", "l">>
UserSeparator == <<"\n", "\n", "U", "s", "e", "r", ":", " ">>
UnknownFunction ==
    <<"u", "n", "k", "n", "o", "w", "n", "_", "f", "u", "n", "c", "t",
      "i", "o", "n">>
ReqRead == <<"R", "e", "a", "d", " ", "i", "t">>
ReqHello == <<"h", "e", "l", "l", "o">>

\* error.message.includes('Multiple tools are supported only when they are
\* all search tools') (vertexService.js line 135)
IsMultiToolError(message) == Includes(message, E_MultiTool)

\* the status of the route's catch block (chatRoutes.js lines 292-305)
StatusForError(message) ==
    IF Includes(message, T_authentication) \/ Includes(message, T_api_key) THEN 401
    ELSE IF Includes(message, T_quota) \/ Includes(message, T_rate_limit) THEN 429
    ELSE IF Includes(message, T_not_found) \/ Includes(message, T_model) THEN 404
    ELSE 500

ErrorTypeFor(status) ==
    CASE status = 401 -> "authentication_error"
      [] status = 429 -> "rate_limit_error"
      [] status = 404 -> "model_not_found_error"
      [] OTHER -> "internal_server_error"

-----------------------------------------------------------------------------
(* Translation of a conversation to the native contents.                   *)

\* extractMessageContent throws on a message without a content field:
\* JSON.stringify(undefined).substring (messageUtils.js line 9)
ExtractThrows(msg) == msg.content = Undefined

\* JSON.stringify of an object content whose text and content are falsy
StringifiedObject(o) ==
    LET field(k, v) == IF v = Undefined THEN <<>>
                       ELSE <<<<"\"">> \o k \o <<"\"", ":", "\"", "\"">> >>
    IN  <<"{">>
        \o Join(field(<<"t", "e", "x", "t">>, o.text)
                \o field(<<"c", "o", "n", "t", "e", "n", "t">>, o.content), ",")
        \o <<"}">>

\* the text of one element of a content array (lines 17-22)
ItemText(item) ==
    IF item.t = "string" THEN item.c
    ELSE IF Truthy(item.text) THEN item.text.c
    ELSE <<>>

\* extractMessageContent (lines 4-42), for a message it does not throw on
ExtractMessageContent(msg) ==
    LET v == msg.content
    IN  CASE v.t = "string" -> v.c
          [] v.t = "array" ->
                Trim(Join([i \in 1..Len(v.a) |-> ItemText(v.a[i])], " "))
          [] v.t = "object" ->
                IF Truthy(v.text) THEN v.text.c
                ELSE IF Truthy(v.content) THEN v.content.c
                ELSE StringifiedObject(v)
          [] OTHER -> <<>>

\* the parts of the native contents
TextPartOut(text) ==
    [kind |-> "text", id |-> <<>>, name |-> "", text |-> text]
FunctionResponsePart(id, result) ==
    [kind |-> "functionResponse", id |-> id, name |-> "", text |-> result]
FunctionCallPart(name, args) ==
    [kind |-> "functionCall", id |-> <<>>, name |-> name, text |-> <<>>,
     args |-> args]

\* the object {} and the object a JSON text of the model's requests denotes
EmptyObject == <<>>
ArgsPath == "{\"path\":\"a\"}"
PathObject == [path |-> "a"]

\* the JSON texts among the arguments strings of the model's requests
ValidJson == {"{}", ArgsPath}

\* toolCall.function.arguments || '{}' ("" is an absent or empty string)
OrEmptyJson(arguments) == IF arguments = "" THEN "{}" ELSE arguments

\* a parse that would put {} in the place of what it cannot read
JsonParse_Lenient(text) ==
    [threw |-> FALSE,
     value |-> IF text = ArgsPath THEN PathObject ELSE EmptyObject]

\* JSON.parse(text): the object, or a SyntaxError
JsonParse(text) ==
    IF text \in ValidJson
    THEN [threw |-> FALSE,
          value |-> IF text = ArgsPath THEN PathObject ELSE EmptyObject]
    ELSE [threw |-> TRUE, value |-> Undefined]

\* what translating one tool call throws: function.name of a call without
\* function, JSON.parse of arguments that are not JSON (lines 89-98)
ToolCallThrows(tc) ==
    IF tc.type # "function" THEN <<>>
    ELSE IF ~tc.hasFunction THEN E_Name
    ELSE IF JsonParse(OrEmptyJson(tc.arguments)).threw THEN E_Json
    ELSE <<>>

\* for (const toolCall of message.tool_calls): the elements of an array; the
\* characters of a string are no tool calls of type function
ToolCallsOf(m) == IF m.tool_calls.t = "array" THEN m.tool_calls.a ELSE <<>>

\* the entry of one non-system message (lines 62-122); `first` is i === 0
TranslateMessage(m, first, systemMessage) ==
    LET content == ExtractMessageContent(m)
    IN  IF m.role = "tool"
        THEN [role |-> "function",
              parts |-> <<FunctionResponsePart(
                             IF Truthy(m.tool_call_id) THEN m.tool_call_id.c
                             ELSE UnknownFunction, content)>>]
        ELSE IF m.role = "assistant" /\ Truthy(m.tool_calls)
        THEN LET fns == SelectSeq(ToolCallsOf(m), LAMBDA tc : tc.type = "function")
             IN  [role |-> "model",
                  parts |-> (IF Trim(content) # <<>> THEN <<TextPartOut(content)>>
                             ELSE <<>>)
                            \o [i \in 1..Len(fns) |->
                                  FunctionCallPart(fns[i].name,
                                      JsonParse(OrEmptyJson(fns[i].arguments)).value)]]
        ELSE IF first /\ m.role = "user" /\ systemMessage # <<>>
        THEN [role |-> "user",
              parts |-> <<TextPartOut(systemMessage \o UserSeparator \o content)>>]
        ELSE [role |-> IF m.role = "assistant" THEN "model" ELSE "user",
              parts |-> <<TextPartOut(content)>>]

\* the first error translation runs into, <<>> when it runs through
TranslationError(ms) ==
    LET systems == SelectSeq(ms, LAMBDA m : m.role = "system")
        others == SelectSeq(ms, LAMBDA m : m.role # "system")
        Err(m) ==
            IF ExtractThrows(m) THEN E_Substring
            ELSE IF m.role = "assistant" /\ Truthy(m.tool_calls)
            THEN LET tcs == ToolCallsOf(m)
                     bad == {i \in 1..Len(tcs) : ToolCallThrows(tcs[i]) # <<>>}
                 IN  IF bad = {} THEN <<>>
                     ELSE ToolCallThrows(tcs[CHOOSE i \in bad : \A j \in bad : i <= j])
            ELSE <<>>
        bad == {i \in 1..Len(others) : Err(others[i]) # <<>>}
    IN  IF systems # <<>> /\ ExtractThrows(Head(systems)) THEN E_Substring
        ELSE IF bad = {} THEN <<>>
        ELSE Err(others[CHOOSE i \in bad : \A j \in bad : i <= j])

\* processMessagesForVertexAI (lines 49-134), when it does not throw
ProcessMessagesForVertexAI(ms) ==
    LET systems == SelectSeq(ms, LAMBDA m : m.role = "system")
        systemMessage == IF systems = <<>> THEN <<>>
                         ELSE ExtractMessageContent(Head(systems))
        others == SelectSeq(ms, LAMBDA m : m.role # "system")
    IN  [i \in 1..Len(others) |-> TranslateMessage(others[i], i = 1, systemMessage)]

-----------------------------------------------------------------------------
(* Tools of a request and the multi-tool fallback of the native service.   *)

\* the text of createAutonomousSystemMessage, which no caller text contains
AutonomousPrompt == <<"@">>

\* createAutonomousSystemMessage (vertexService.js lines 217-257)
CreateAutonomousSystemMessage == Msg("system", Str(AutonomousPrompt), Undefined, Undefined)

\* convertOpenAIToolsToVertex (lines 259-293): the names of the function
\* declarations, <<>> for null
ConvertOpenAIToolsToVertex(tools) ==
    LET fns == SelectSeq(tools, LAMBDA t : t.type = "function")
    IN  [i \in 1..Len(fns) |-> fns[i].name]

\* const contextKeywords (lines 304-311), in the order of Object.entries
ContextKeywords ==
    <<
      [name |-> "builtin_read_file",
       keywords |-> {<<"r", "e", "a", "d">>,
                     <<"s", "h", "o", "w">>,
                     <<"d", "i", "s", "p", "l", "a", "y">>,
                     <<"v", "i", "e", "w">>,
                     <<"c", "o", "n", "t", "e", "n", "t">>,
                     <<"f", "i", "l", "e">>,
                     <<"o", "p", "e", "n">>}],
      [name |-> "builtin_edit_existing_file",
       keywords |-> {<<"e", "d", "i", "t">>,
                     <<"m", "o", "d", "i", "f", "y">>,
                     <<"c", "h", "a", "n", "g", "e">>,
                     <<"u", "p", "d", "a", "t", "e">>,
                     <<"f", "i", "x">>,
                     <<"r", "e", "p", "l", "a", "c", "e">>}],
      [name |-> "builtin_create_new_file",
       keywords |-> {<<"c", "r", "e", "a", "t", "e">>,
                     <<"n", "e", "w">>,
                     <<"m", "a", "k", "e">>,
                     <<"g", "e", "n", "e", "r", "a", "t", "e">>,
                     <<"w", "r", "i", "t", "e">>}],
      [name |-> "builtin_list_directory",
       keywords |-> {<<"l", "i", "s", "t">>,
                     <<"l", "s">>,
                     <<"d", "i", "r", "e", "c", "t", "o", "r", "y">>,
                     <<"f", "o", "l", "d", "e", "r">>,
                     <<"s", "t", "r", "u", "c", "t", "u", "r", "e">>,
                     <<"f", "i", "l", "e", "s">>}],
      [name |-> "builtin_search_files",
       keywords |-> {<<"s", "e", "a", "r", "c", "h">>,
                     <<"f", "i", "n", "d">>,
                     <<"l", "o", "c", "a", "t", "e">>,
                     <<"g", "r", "e", "p">>,
                     <<"l", "o", "o", "k">>}],
      [name |-> "builtin_run_terminal_command",
       keywords |-> {<<"r", "u", "n">>,
                     <<"e", "x", "e", "c", "u", "t", "e">>,
                     <<"c", "o", "m", "m", "a", "n", "d">>,
                     <<"t", "e", "r", "m", "i", "n", "a", "l">>,
                     <<"s", "h", "e", "l", "l">>,
                     <<"n", "p", "m">>,
                     <<"g", "i", "t">>}]
    >>

\* const toolPriorities (lines 337-344)
ToolPriorities ==
    <<"builtin_read_file", "builtin_edit_existing_file", "builtin_create_new_file",
      "builtin_list_directory", "builtin_search_files", "builtin_run_terminal_command">>

\* the history keeps the last 10 selections (line 378)
HistoryCap == 10
\* recentlyUsed looks at the last 3 (line 348)
RecentWindow == 3

\* tools.find(tool => tool.type === 'function' && tool.function.name === name):
\* the index of the first such tool, 0 when there is none
FindFunctionTool(tools, name) ==
    LET hits == {i \in 1..Len(tools) : tools[i].type = "function" /\ tools[i].name = name}
    IN  IF hits = {} THEN 0 ELSE CHOOSE i \in hits : \A j \in hits : i <= j

\* the context-aware selection (lines 313-332): the index of the matched
\* tool, 0 when no row matches a declared tool
ContextMatchedTool(tools, lowerContext) ==
    LET rows == {r \in 1..Len(ContextKeywords) :
                    /\ \E k \in ContextKeywords[r].keywords : Includes(lowerContext, k)
                    /\ FindFunctionTool(tools, ContextKeywords[r].name) # 0}
    IN  IF rows = {} THEN 0
        ELSE FindFunctionTool(tools,
                 ContextKeywords[CHOOSE r \in rows : \A q \in rows : r <= q].name)

\* toolUsageHistory.slice(-3).map(h => h.toolName)
RecentlyUsed(history) ==
    {history[i] : i \in {j \in 1..Len(history) : j > Len(history) - RecentWindow}}

\* the priority loop (lines 352-362): the index of the first priority tool
\* that is declared and not recently used, else the default tools[0]
PrioritySelection(tools, recent) ==
    LET rows == {p \in 1..Len(ToolPriorities) :
                    /\ ToolPriorities[p] \notin recent
                    /\ FindFunctionTool(tools, ToolPriorities[p]) # 0}
    IN  IF rows = {} THEN 1
        ELSE FindFunctionTool(tools,
                 ToolPriorities[CHOOSE p \in rows : \A q \in rows : p <= q])

\* a history that never discards
RecordUsage_NoShift(history, name) == Append(history, name)

\* toolUsageHistory.push(...); if (length > 10) shift() (lines 371-380)
RecordUsage(history, name) ==
    LET pushed == Append(history, name)
    IN  IF Len(pushed) > HistoryCap THEN Tail(pushed) ELSE pushed

\* the rotation (lines 334-381): the selected index (from 1) and the new
\* rotation state; lastUsedToolIndex counts from 0 as in the code
Rotate(tools, state) ==
    LET recent == RecentlyUsed(state.toolUsageHistory)
        first == PrioritySelection(tools, recent)
        cycle == tools[first].name \in recent
        index == IF cycle THEN (state.lastUsedToolIndex + 1) % Len(tools)
                 ELSE state.lastUsedToolIndex
        chosen == IF cycle THEN index + 1 ELSE first
    IN  [selected |-> chosen,
         state |-> [lastUsedToolIndex |-> index,
                    toolUsageHistory |->
                        RecordUsage(state.toolUsageHistory, tools[chosen].name)]]

\* what context.toLowerCase() throws on a context that is no string; an
\* undefined context takes the parameter's default ''
ContextError(context) ==
    CASE context.t \in {"string", "undefined"} -> <<>>
      [] context.t = "null" -> E_NullLower
      [] OTHER -> E_ToLowerCase

\* convertOpenAIToolsToVertexFallback (lines 295-404) on a non-empty tools
\* array: the error it throws, the declarations it returns (<<>> for null)
\* and the rotation state it leaves
ConvertOpenAIToolsToVertexFallback(tools, context, state) ==
    IF ContextError(context) # <<>>
    THEN [threw |-> ContextError(context), declarations |-> <<>>, state |-> state,
          rotated |-> FALSE, selected |-> 0]
    ELSE LET lower == IF context.t = "string" THEN ToLowerCase(context.c) ELSE <<>>
             matched == ContextMatchedTool(tools, lower)
             rotate == matched = 0 /\ Len(tools) > 1
             rot == Rotate(tools, state)
             selected == IF matched # 0 THEN matched
                         ELSE IF rotate THEN rot.selected
                         ELSE 1
         IN  [threw |-> <<>>,
              declarations |-> IF tools[selected].type = "function"
                               THEN <<tools[selected].name>> ELSE <<>>,
              state |-> IF rotate THEN rot.state ELSE state,
              rotated |-> rotate, selected |-> selected]

\* messages.filter(m => m.role === 'user').pop(), then its content or ''
\* (lines 144-145)
FallbackContext(ms) ==
    LET users == SelectSeq(ms, LAMBDA m : m.role = "user")
    IN  IF users = <<>> THEN Str(<<>>) ELSE users[Len(users)].content

-----------------------------------------------------------------------------
(* POST /v1/chat/completions and generateChatCompletion of the native      *)
(* service.  A handler runs from one await of the backend to the next, so  *)
(* one action is one such run.                                             *)

MaxTools == 3

ChoiceAuto == Str(<<"a", "u", "t", "o">>)
ChoiceNone == Str(<<"n", "o", "n", "e">>)
\* tool_choice {type: 'function', function: {name}}
ChoiceFunction(name) == [t |-> "object", type |-> "function", name |-> name]

Request(model, messages, stream, tools, tool_choice) ==
    [model |-> model, messages |-> messages, stream |-> stream, tools |-> tools,
     tool_choice |-> tool_choice]

\* tools && tools.length > 0, for a tools value that is null or an array
HasTools(tools) == tools.t = "array" /\ tools.a # <<>>

\* the basic validation of the route (chatRoutes.js lines 63-118): the
\* message of the 400 response, "" when the request passes
RouteRejects(r) ==
    IF ~Truthy(r.messages) \/ r.messages.t # "array" \/ r.messages.a = <<>>
    THEN "Messages array is required and cannot be empty"
    ELSE IF r.model = "" THEN "Model parameter is required"
    ELSE IF Truthy(r.tools) /\ r.tools.t # "array" THEN "Tools must be an array"
    ELSE IF Truthy(r.tool_choice) /\ Truthy(r.tools) /\ r.tools.a = <<>>
    THEN "tool_choice requires tools to be provided"
    ELSE IF GetModelProvider(r.model) = "" THEN "Model not supported"
    ELSE ""

Rejection ==
    [status |-> 400, type |-> "invalid_request_error", body |-> "error",
     message |-> NoMessage]

\* res.writeHead(200) and the stream, or res.json(result) (lines 139-286)
Success(isStream) ==
    [status |-> 200, type |-> "", body |-> IF isStream THEN "stream" ELSE "json",
     message |-> NoMessage]

\* the catch block of the route (lines 288-314)
ErrorResponse(message) ==
    [status |-> StatusForError(message),
     type |-> ErrorTypeFor(StatusForError(message)), body |-> "error",
     message |-> NoMessage]

\* getThirdPartyHelpMessage (vertexService.js lines 674-687) for the providers
\* of the registry; a text is the sequence of its spaces and of its runs of
\* other characters, so that split(' ') and concatenation are those of the
\* string
GetThirdPartyHelpMessage(provider, model) ==
    CASE provider = "anthropic" ->
            <<"Claude", " ", "models", " ", "(" \o model \o ")", " ",
              "are", " ", "available", " ", "through", " ", "Vertex", " ",
              "AI", " ", "Model", " ", "Garden.", " ", "To", " ",
              "enable:\n\n1.", " ", "Go", " ", "to", " ", "Vertex", " ",
              "AI", " ", "Model", " ", "Garden", " ", "in", " ", "Google",
              " ", "Cloud", " ", "Console\n2.", " ", "Find", " ", "and",
              " ", "enable", " ", "Claude", " ", "models\n3.", " ",
              "Accept", " ", "the", " ", "terms", " ", "and", " ",
              "conditions\n4.", " ", "The", " ", "model", " ", "will", " ",
              "be", " ", "available", " ", "for", " ", "use\n\nNote:", " ",
              "Availability", " ", "may", " ", "vary", " ", "by", " ",
              "region.">>
      [] provider = "meta" ->
            <<"Llama", " ", "models", " ", "(" \o model \o ")", " ", "are",
              " ", "available", " ", "through", " ", "Vertex", " ", "AI",
              " ", "Model", " ", "Garden.", " ", "To", " ",
              "enable:\n\n1.", " ", "Go", " ", "to", " ", "Vertex", " ",
              "AI", " ", "Model", " ", "Garden", " ", "in", " ", "Google",
              " ", "Cloud", " ", "Console\n2.", " ", "Find", " ", "and",
              " ", "enable", " ", "Llama", " ", "models\n3.", " ",
              "Accept", " ", "Meta's", " ", "terms", " ", "and", " ",
              "conditions\n4.", " ", "The", " ", "model", " ", "will", " ",
              "be", " ", "available", " ", "for", " ", "use">>
      [] provider = "mistral" ->
            <<"Mistral", " ", "models", " ", "(" \o model \o ")", " ",
              "are", " ", "available", " ", "through", " ", "Vertex", " ",
              "AI", " ", "Model", " ", "Garden.", " ", "To", " ",
              "enable:\n\n1.", " ", "Go", " ", "to", " ", "Vertex", " ",
              "AI", " ", "Model", " ", "Garden", " ", "in", " ", "Google",
              " ", "Cloud", " ", "Console\n2.", " ", "Find", " ", "and",
              " ", "enable", " ", "Mistral", " ", "models\n3.", " ",
              "Accept", " ", "the", " ", "terms", " ", "and", " ",
              "conditions\n4.", " ", "The", " ", "model", " ", "will", " ",
              "be", " ", "available", " ", "for", " ", "use">>
      [] provider = "cohere" ->
            <<"Cohere", " ", "models", " ", "(" \o model \o ")", " ",
              "are", " ", "available", " ", "through", " ", "Vertex", " ",
              "AI", " ", "Model", " ", "Garden.", " ", "To", " ",
              "enable:\n\n1.", " ", "Go", " ", "to", " ", "Vertex", " ",
              "AI", " ", "Model", " ", "Garden", " ", "in", " ", "Google",
              " ", "Cloud", " ", "Console\n2.", " ", "Find", " ", "and",
              " ", "enable", " ", "Cohere", " ", "models\n3.", " ",
              "Accept", " ", "the", " ", "terms", " ", "and", " ",
              "conditions\n4.", " ", "The", " ", "model", " ", "will", " ",
              "be", " ", "available", " ", "for", " ", "use">>

\* generateThirdPartyNonStreamingResponse (lines 631-672): the help message
\* as the single choice; the streaming variant hands the same text to
\* createMockStream
ThirdPartySuccess(isStream, provider, model) ==
    [status |-> 200, type |-> "", body |-> IF isStream THEN "stream" ELSE "json",
     message |-> IF isStream THEN NoMessage
                 ELSE [role |-> "assistant",
                       content |-> GetThirdPartyHelpMessage(provider, model),
                       finish_reason |-> "stop"]]

\* what processMessagesForThirdParty and buildThirdPartyRequest throw
\* (messageUtils.js lines 140-272, vertexService.js lines 406-473): for
\* cohere, substring of a last content that is no string, else slice of the
\* object processMessagesForCohere returns; <<>> for the other providers
ThirdPartyError(provider, ms) ==
    IF provider # "cohere" THEN <<>>
    ELSE IF ms[Len(ms)].content.t \in {"array", "object"} THEN E_SubstringFn
    ELSE E_Slice

\* modelConfig.toolConfig (vertexService.js lines 70-105), "" when unset
ToolConfigMode(r) ==
    IF ~HasTools(r.tools) THEN ""
    ELSE IF r.tool_choice = ChoiceAuto THEN "AUTO"
    ELSE IF r.tool_choice = ChoiceNone THEN "NONE"
    ELSE IF r.tool_choice.t = "object" /\ r.tool_choice.type = "function" THEN "ANY"
    ELSE IF ConvertOpenAIToolsToVertex(r.tools.a) # <<>> THEN "AUTO"
    ELSE ""

\* allowedFunctionNames of the toolConfig (lines 96-101), <<>> when absent
AllowedFunctionNames(r) ==
    IF ToolConfigMode(r) = "ANY" THEN <<r.tool_choice.name>> ELSE <<>>

\* processedMessages (lines 108-114)
ProcessedMessages(r) ==
    IF HasTools(r.tools) THEN <<CreateAutonomousSystemMessage>> \o r.messages.a
    ELSE r.messages.a

Pending == [state |-> "pending", error |-> <<>>]
Returned == [state |-> "ok", error |-> <<>>]
Failed(message) == [state |-> "failed", error |-> message]

\* one generateContent / generateContentStream call on the backend
BackendCall(declarations, mode, allowed, contents, stream) ==
    [declarations |-> declarations, mode |-> mode, allowed |-> allowed,
     contents |-> contents, stream |-> stream, outcome |-> Pending]

Settle(cs, outcome) == [cs EXCEPT ![Len(cs)].outcome = outcome]

\* stream && supportsStreaming(model)
IsStream(r) == r.stream /\ SupportsStreaming(r.model)

\* the retry at lines 161-165 is outside every try of the service: nothing
\* catches its failure
CatchesRetryFailure_Retrying(message) == IsMultiToolError(message)

CatchesRetryFailure(message) == FALSE

\* The route from the request to the first await of the backend: the
\* validation, then generateGoogleModelCompletion up to its first call
\* (lines 58-132) or the whole third-party completion, which calls no
\* backend (lines 175-216).
HandleRequest(r) ==
    /\ pc = "idle"
    /\ req' = r
    /\ UNCHANGED <<toolRotationState, selections, selectionLog, inflight>>
    /\ IF RouteRejects(r) # ""
       THEN /\ resp' = Rejection
            /\ calls' = <<>> /\ thrown' = NoError /\ pc' = "done"
       ELSE IF GetModelProvider(r.model) # "google"
       THEN LET provider == GetModelProvider(r.model)
                err == ThirdPartyError(provider, r.messages.a)
            IN  /\ thrown' = err
                /\ resp' = IF err # <<>> THEN ErrorResponse(err)
                           ELSE ThirdPartySuccess(IsStream(r), provider, r.model)
                /\ calls' = <<>> /\ pc' = "done"
       ELSE LET ms == ProcessedMessages(r)
                err == TranslationError(ms)
            IN  IF err # <<>>
                THEN /\ thrown' = err
                     /\ resp' = ErrorResponse(err)
                     /\ calls' = <<>> /\ pc' = "done"
                ELSE /\ calls' = <<BackendCall(
                                      IF HasTools(r.tools)
                                      THEN ConvertOpenAIToolsToVertex(r.tools.a)
                                      ELSE <<>>,
                                      ToolConfigMode(r), AllowedFunctionNames(r),
                                      ProcessMessagesForVertexAI(ms), IsStream(r))>>
                     /\ thrown' = NoError /\ resp' = NoResponse /\ pc' = "call1"

\* The first call settles (lines 127-172): its result goes to the client;
\* its failure goes to the catch, which on the multi-tool error of a request
\* with tools selects one tool and issues the second call, and otherwise
\* re-throws to the route.
FirstCallSettles(failure) ==
    /\ pc = "call1"
    /\ UNCHANGED <<req, inflight>>
    /\ IF failure = <<>>
       THEN /\ calls' = Settle(calls, Returned)
            /\ resp' = Success(IsStream(req))
            /\ pc' = "done"
            /\ UNCHANGED <<thrown, toolRotationState, selections, selectionLog>>
       ELSE IF IsMultiToolError(failure) /\ HasTools(req.tools)
       THEN LET fb == ConvertOpenAIToolsToVertexFallback(
                          req.tools.a, FallbackContext(req.messages.a),
                          toolRotationState)
            IN  /\ fb.rotated => selections < MaxSelections
                /\ toolRotationState' = fb.state
                /\ selections' = IF fb.rotated THEN selections + 1 ELSE selections
                /\ selectionLog' = IF fb.rotated
                                   THEN Append(selectionLog,
                                               req.tools.a[fb.selected].name)
                                   ELSE selectionLog
                /\ IF fb.threw # <<>>
                   THEN /\ calls' = Settle(calls, Failed(failure))
                        /\ thrown' = fb.threw
                        /\ resp' = ErrorResponse(fb.threw)
                        /\ pc' = "done"
                   ELSE IF fb.declarations = <<>>
                   THEN /\ calls' = Settle(calls, Failed(failure))
                        /\ thrown' = failure
                        /\ resp' = ErrorResponse(failure)
                        /\ pc' = "done"
                   ELSE /\ calls' = Append(Settle(calls, Failed(failure)),
                                       BackendCall(fb.declarations, calls[1].mode,
                                           calls[1].allowed,
                                           ProcessMessagesForVertexAI(
                                               ProcessedMessages(req)),
                                           IsStream(req)))
                        /\ pc' = "call2"
                        /\ UNCHANGED <<thrown, resp>>
       ELSE /\ calls' = Settle(calls, Failed(failure))
            /\ thrown' = failure
            /\ resp' = ErrorResponse(failure)
            /\ pc' = "done"
            /\ UNCHANGED <<toolRotationState, selections, selectionLog>>

\* The second call settles (lines 161-165): its result goes to the client,
\* its failure leaves the service and reaches the catch of the route.
SecondCallSettles(failure) ==
    /\ pc = "call2"
    /\ UNCHANGED <<req, toolRotationState, selections, selectionLog, inflight>>
    /\ IF failure = <<>>
       THEN /\ calls' = Settle(calls, Returned)
            /\ resp' = Success(IsStream(req))
            /\ pc' = "done"
            /\ UNCHANGED thrown
       ELSE IF CatchesRetryFailure(failure)
       THEN /\ calls' = Append(Settle(calls, Failed(failure)),
                               [calls[Len(calls)] EXCEPT !.outcome = Pending])
            /\ UNCHANGED <<pc, thrown, resp>>
       ELSE /\ calls' = Settle(calls, Failed(failure))
            /\ thrown' = failure
            /\ resp' = ErrorResponse(failure)
            /\ pc' = "done"

\* The handler returns after res.json / res.end: what belonged to the request
\* is gone, the rotation state of the service instance stays.
RequestEnds ==
    /\ pc = "done"
    /\ pc' = "idle" /\ req' = NoRequest /\ calls' = <<>> /\ resp' = NoResponse
    /\ thrown' = NoError
    /\ UNCHANGED <<toolRotationState, selections, selectionLog, inflight>>

CallOutcomes == {<<>>} \cup BackendErrors

\* The requests of the route: every shape of the body the validation tells
\* apart, with conversations over RouteMessages.
RouteMessages ==
    {Msg("user", Str(Hi), Undefined, Undefined),
     Msg("system", Str(Hi), Undefined, Undefined),
     Msg("user", Undefined, Undefined, Undefined),
     Msg("bogus", Str(Hi), Undefined, Undefined),
     Msg("assistant", Str(Hi), Undefined, Arr(<<GoodToolCall>>)),
     Msg("assistant", Str(Hi), Undefined,
         Arr(<<ToolCall(Str(IdCall1), "function", TRUE, "", "")>>)),
     Msg("tool", Str(Hi), Str(IdCall1), Undefined),
     Msg("tool", Str(Hi), Str(IdCall9), Undefined),
     Msg("tool", Str(Hi), Undefined, Undefined)}

ReadFileTool == Tool("function", "builtin_read_file")

RouteRequests ==
    {Request(model, messages, stream, tools, tool_choice) :
        model \in ModelIds,
        messages \in {Undefined, Str(Hi)}
                     \cup {Arr(ms) : ms \in SeqsUpTo(RouteMessages, MaxMsgs)},
        stream \in BOOLEAN,
        tools \in {Null, Arr(<<ReadFileTool>>)},
        tool_choice \in {Null}}
    \cup {Request("gemini-pro", Arr(<<Msg("user", Str(Hi), Undefined, Undefined)>>),
                  FALSE, tools, tool_choice) :
            tools \in {Null, Str(Hi), Arr(<<>>), Arr(<<ReadFileTool>>),
                       Arr(<<Tool("retrieval", "lookup")>>)},
            tool_choice \in {Null, ChoiceAuto, ChoiceNone,
                             ChoiceFunction("builtin_read_file"),
                             ChoiceFunction("get_weather")}}

Init == StreamIdle /\ PureIdle /\ RouteIdle

Next ==
    /\ UNCHANGED <<streamVars, pureVars>>
    /\ \/ \E r \in RouteRequests : HandleRequest(r)
       \/ \E failure \in CallOutcomes : FirstCallSettles(failure)
       \/ \E failure \in CallOutcomes : SecondCallSettles(failure)
       \/ RequestEnds

Spec == Init /\ [][Next]_vars

\* The requests of the service: one user turn whose content is a string
\* with or without a keyword of the table, an array of parts, or null, or a
\* conversation without user turn, with tools lists over ServiceTools.
\* the text of a caller's system message
BeBrief == <<"B", "e", " ", "b", "r", "i", "e", "f">>

ServiceConversations ==
    {<<Msg("user", Str(ReqRead), Undefined, Undefined)>>,
     <<Msg("user", Str(ReqHello), Undefined, Undefined)>>,
     <<Msg("user", Arr(<<TextPart(ReqRead)>>), Undefined, Undefined)>>,
     <<Msg("user", Null, Undefined, Undefined)>>,
     <<Msg("assistant", Str(Hi), Undefined, Undefined)>>,
     <<Msg("system", Str(BeBrief), Undefined, Undefined),
       Msg("user", Str(ReqHello), Undefined, Undefined)>>,
     <<Msg("system", Str(BeBrief), Undefined, Undefined),
       Msg("assistant", Str(Hi), Undefined, Undefined),
       Msg("user", Str(ReqHello), Undefined, Undefined)>>}
    \cup {<<Msg("user", Str(ReqRead), Undefined, Undefined),
             Msg("assistant", Str(Hi), Undefined,
                 Arr(<<ToolCall(Str(IdCall1), "function", TRUE,
                                "builtin_read_file", arguments)>>))>> :
            arguments \in {"", ArgsPath, "{bad"}}

ServiceTools ==
    {ReadFileTool, Tool("function", "get_weather"), Tool("retrieval", "lookup")}

ServiceOutcomes == {<<>>, E_MultiTool, E_Other}

\* the sequences over S of length 1..n without repetition
ListsUpTo(S, n) ==
    {l \in SeqsUpTo(S, n) :
        l # <<>> /\ \A i, j \in 1..Len(l) : i # j => l[i] # l[j]}

ServiceRequests ==
    {Request("gemini-pro", Arr(ms), stream, tools, Null) :
        ms \in ServiceConversations,
        stream \in BOOLEAN,
        tools \in {Null} \cup {Arr(l) : l \in ListsUpTo(ServiceTools, MaxTools)}}

NextService ==
    /\ UNCHANGED <<streamVars, pureVars>>
    /\ \/ \E r \in ServiceRequests : HandleRequest(r)
       \/ \E failure \in ServiceOutcomes : FirstCallSettles(failure)
       \/ \E failure \in ServiceOutcomes : SecondCallSettles(failure)
       \/ RequestEnds

SpecService == Init /\ [][NextService]_vars

-----------------------------------------------------------------------------
(* Properties of the multi-tool fallback and of the route's validation.    *)

FunctionToolNames(tools) ==
    {tools[i].name : i \in {j \in 1..Len(tools) : tools[j].type = "function"}}

\* the first call of the request was rejected with the multi-tool error and
\* the catch has run
FirstCallRejectedMultiTool ==
    /\ pc \in {"call2", "done"} /\ calls # <<>>
    /\ calls[1].outcome.state = "failed"
    /\ IsMultiToolError(calls[1].outcome.error)

\* C5: a native request that declares one or more function tools and whose
\* first backend call is rejected with the multi-tool error is retried,
\* whatever the rotation state, with exactly one function declaration,
\* the name of one of the tools the request declares.
C5_RetryWithOneDeclaredTool ==
    (/\ FirstCallRejectedMultiTool
     /\ HasTools(req.tools) /\ FunctionToolNames(req.tools.a) # {}) =>
        /\ Len(calls) >= 2
        /\ Len(calls[2].declarations) = 1
        /\ calls[2].declarations[1] \in FunctionToolNames(req.tools.a)

\* C6: the backend is called at most twice for a request; a second call
\* follows only a first call that failed with the multi-tool error; the
\* failure of the second call, and a failure of the first call that is not
\* the multi-tool error, is the last call of the request and its error is
\* the one that reaches the caller.
C6_AtMostOneRetry ==
    /\ Len(calls) <= 2
    /\ Len(calls) >= 2 =>
          /\ calls[1].outcome.state = "failed"
          /\ IsMultiToolError(calls[1].outcome.error)
    /\ \A i \in 1..Len(calls) :
          (/\ calls[i].outcome.state = "failed"
           /\ (i >= 2 \/ ~IsMultiToolError(calls[i].outcome.error))) =>
              /\ i = Len(calls)
              /\ pc = "done"
              /\ thrown = calls[i].outcome.error

\* the retry itself was rejected with the multi-tool error, and that error
\* reached the caller after two calls
C6_Witness ==
    /\ pc = "done" /\ Len(calls) = 2
    /\ calls[2].outcome.state = "failed"
    /\ IsMultiToolError(calls[2].outcome.error)
    /\ thrown = calls[2].outcome.error
    /\ resp.status = 500

\* the ids of the tool calls carried by the assistant messages
AssistantToolCallIds(ms) ==
    UNION {{ToolCallsOf(ms[i])[k].id : k \in 1..Len(ToolCallsOf(ms[i]))} :
              i \in {j \in 1..Len(ms) :
                        ms[j].role = "assistant" /\ Truthy(ms[j].tool_calls)}}

\* C7: no payload sent to the backend holds a function-response entry for a
\* tool message whose tool_call_id is not the id of a tool call of an
\* assistant message of the conversation.
C7_NoOrphanFunctionResponse ==
    \A c \in 1..Len(calls) :
        \A e \in 1..Len(calls[c].contents) :
            \A p \in 1..Len(calls[c].contents[e].parts) :
                LET part == calls[c].contents[e].parts[p]
                IN  part.kind = "functionResponse" =>
                        Str(part.id) \in AssistantToolCallIds(req.messages.a)

\* the message rules of the claim
ViolatesMessageRules(m) ==
    \/ m.role \notin ValidRoles
    \/ m.role = "tool" /\ Lacking(m.tool_call_id)
    \/ /\ m.role = "assistant" /\ Truthy(m.tool_calls)
       /\ \E k \in 1..Len(ToolCallsOf(m)) :
             ~ToolCallsOf(m)[k].hasFunction \/ ToolCallsOf(m)[k].name = ""
    \/ /\ m.role \in {"system", "user", "assistant"} /\ ~Truthy(m.tool_calls)
       /\ Lacking(m.content)

HasConversation(r) == r.messages.t = "array" /\ r.messages.a # <<>>

\* translation was entered: it threw, or its contents went to the backend
ReachedTranslation == thrown # NoError \/ calls # <<>>

ClientError ==
    resp.status >= 400 /\ resp.status <= 499 /\ resp.body = "error" /\ resp.type # ""

\* C8: a request with a message that violates the message rules is answered
\* with a 4xx error body and reaches neither translation nor the backend;
\* so is a request with missing or empty messages, without model or with an
\* unknown model.
C8_InvalidRequestsRejected ==
    pc # "idle" =>
        /\ (/\ HasConversation(req)
            /\ \E i \in 1..Len(req.messages.a) :
                  ViolatesMessageRules(req.messages.a[i])) =>
              /\ ~ReachedTranslation
              /\ pc = "done" /\ ClientError
        /\ (~HasConversation(req) \/ GetModelProvider(req.model) = "") =>
              /\ calls = <<>>
              /\ pc = "done" /\ ClientError

-----------------------------------------------------------------------------
(* Sampling parameters of the outgoing request.  temperature and top_p are *)
(* counted in tenths (0.7 is 7), max_tokens and top_k in units.            *)

Num(n) == [t |-> "number", n |-> n]

Max(a, b) == IF a > b THEN a ELSE b

\* the clamp without its lower bound
Clamp_NoFloor(lo, hi, x) == Min(hi, x)

\* Math.max(lo, Math.min(hi, x))
Clamp(lo, hi, x) == Max(lo, Min(hi, x))

\* a destructuring default: it applies to undefined only
WithDefault(v, default) == IF v = Undefined THEN default ELSE v.n

\* temperature = 0.7, max_tokens = 2048, top_p = 1, top_k = 40
\* (chatRoutes.js lines 46-49, vertexService.js lines 20-23)
SamplingDefaults(r) ==
    [temperature |-> WithDefault(r.temperature, 7),
     max_tokens |-> WithDefault(r.max_tokens, 2048),
     top_p |-> WithDefault(r.top_p, 10),
     top_k |-> WithDefault(r.top_k, 40)]

\* modelConfig.generationConfig (vertexService.js lines 62-67)
GenerationConfig(p) ==
    [done |-> TRUE, threw |-> FALSE,
     temperature |-> Clamp(0, 20, p.temperature),
     max_tokens |-> Clamp(1, 8192, p.max_tokens),
     hasTopP |-> TRUE, top_p |-> Clamp(0, 10, p.top_p),
     hasTopK |-> TRUE, top_k |-> Clamp(1, 40, p.top_k)]

\* buildThirdPartyRequest (lines 406-473), its sampling fields: baseRequest
\* holds the clamped temperature and max_tokens; the meta request has the
\* fixed top_p 0.9; for cohere `messages` is the object of
\* processMessagesForCohere and messages.slice throws
BuildThirdPartyRequest(provider, p) ==
    [done |-> TRUE, threw |-> provider = "cohere",
     temperature |-> Clamp(0, 10, p.temperature),
     max_tokens |-> Clamp(1, 4096, p.max_tokens),
     hasTopP |-> provider = "meta", top_p |-> IF provider = "meta" THEN 9 ELSE 0,
     hasTopK |-> FALSE, top_k |-> 0]

Providers == {"google", "anthropic", "meta", "mistral", "cohere"}

\* The sampling parameters a request may carry.
SamplingInputs ==
    [provider : Providers,
     temperature : {Undefined} \cup {Num(n) : n \in {-10, 0, 7, 10, 15, 20, 50}},
     max_tokens : {Undefined} \cup {Num(n) : n \in {-5, 0, 1, 4096, 4097, 8192, 9000}},
     top_p : {Undefined} \cup {Num(n) : n \in {-1, 0, 5, 10, 11}},
     top_k : {Undefined} \cup {Num(n) : n \in {-1, 0, 1, 40, 41}}]

SamplingInit ==
    /\ input \in SamplingInputs /\ output = NotDone
    /\ StreamIdle /\ RouteIdle

\* generateChatCompletion builds the request of the provider (lines 16-56)
BuildRequest ==
    /\ ~output.done
    /\ output' = IF input.provider = "google"
                 THEN GenerationConfig(SamplingDefaults(input))
                 ELSE BuildThirdPartyRequest(input.provider, SamplingDefaults(input))
    /\ UNCHANGED <<input, streamVars, routeVars>>

SpecSampling == SamplingInit /\ [][BuildRequest]_vars

\* min(max(x, lo), hi)
Clamped(x, lo, hi) ==
    LET floor == IF x < lo THEN lo ELSE x
    IN  IF floor > hi THEN hi ELSE floor

\* C12 as stated: every sampling parameter placed in the outgoing request,
\* of whatever provider, equals the numeric input clamped to its range.
C12_PlacedParametersClamped ==
    (output.done /\ ~output.threw) =>
        LET native == input.provider = "google"
        IN  /\ input.temperature # Undefined =>
                  output.temperature =
                      Clamped(input.temperature.n, 0, IF native THEN 20 ELSE 10)
            /\ input.max_tokens # Undefined =>
                  output.max_tokens =
                      Clamped(input.max_tokens.n, 1, IF native THEN 8192 ELSE 4096)
            /\ (output.hasTopP /\ input.top_p # Undefined) =>
                  output.top_p = Clamped(input.top_p.n, 0, 10)
            /\ (output.hasTopK /\ input.top_k # Undefined) =>
                  output.top_k = Clamped(input.top_k.n, 1, 40)

\* C12, amended: temperature and max_tokens of the outgoing request are the
\* numeric input clamped to [0,2] and [1,8192] for the native provider, to
\* [0,1] and [1,4096] for a third-party provider; top_p and top_k are
\* clamped to [0,1] and [1,40] in the native request only: a third-party
\* request carries no top_k, and no top_p except the fixed 0.9 of the meta
\* request.
C12_SamplingClamped ==
    (output.done /\ ~output.threw) =>
        LET native == input.provider = "google"
        IN  /\ ~native => /\ ~output.hasTopK
                          /\ output.hasTopP <=> input.provider = "meta"
                          /\ output.hasTopP => output.top_p = 9
            /\ input.temperature # Undefined =>
                  output.temperature =
                      Clamped(input.temperature.n, 0, IF native THEN 20 ELSE 10)
            /\ input.max_tokens # Undefined =>
                  output.max_tokens =
                      Clamped(input.max_tokens.n, 1, IF native THEN 8192 ELSE 4096)
            /\ (native /\ input.top_p # Undefined) =>
                  output.hasTopP /\ output.top_p = Clamped(input.top_p.n, 0, 10)
            /\ (native /\ input.top_k # Undefined) =>
                  output.hasTopK /\ output.top_k = Clamped(input.top_k.n, 1, 40)

\* temperature 5 becomes 2, top_k 0 becomes 1, max_tokens 9000 becomes 8192
\* and top_p 0.5 stays for the native provider
C12_Witness ==
    /\ output.done /\ ~output.threw /\ input.provider = "google"
    /\ input.temperature = Num(50) /\ output.temperature = 20
    /\ input.top_k = Num(0) /\ output.top_k = 1
    /\ input.max_tokens = Num(9000) /\ output.max_tokens = 8192
    /\ input.top_p = Num(5) /\ output.top_p = 5

-----------------------------------------------------------------------------
(* Third-party providers.                                                  *)

ThirdPartyProviders == {"anthropic", "meta", "mistral", "cohere"}

\* C13: for every third-party provider of the registry and every well-formed
\* conversation, a non-streaming completion is answered with one choice of
\* role assistant whose content is the provider's help text and whose
\* finish_reason is stop, and never with an error.
C13_ThirdPartyHelpMessage ==
    (/\ pc = "done" /\ RouteRejects(req) = ""
     /\ GetModelProvider(req.model) \in ThirdPartyProviders
     /\ ~req.stream
     /\ \A i \in 1..Len(req.messages.a) : WellFormedMessage(req.messages.a[i])) =>
        /\ thrown = NoError
        /\ resp.status = 200 /\ resp.body = "json"
        /\ resp.message.role = "assistant"
        /\ resp.message.content =
              GetThirdPartyHelpMessage(GetModelProvider(req.model), req.model)
        /\ resp.message.finish_reason = "stop"

-----------------------------------------------------------------------------
(* Streaming of a third-party completion: the route's loop reads the       *)
(* generator of createMockStream.                                          *)

StreamingThirdPartyModels ==
    {m \in ModelIds : GetModelProvider(m) \in ThirdPartyProviders /\ SupportsStreaming(m)}

\* generateThirdPartyStreamingResponse (vertexService.js lines 608-629): the
\* content of the non-streaming response goes to createMockStream, whose
\* `const words = text.split(' ')` are still to be yielded
MockStreamInit ==
    /\ streamPc = "loop" /\ frames = <<>> /\ words = <<>> /\ toolCalls = <<>>
    /\ upstreamText = <<>> /\ upstreamCalls = 0 /\ upstreamFailed = FALSE
    /\ writeFailed = FALSE
    /\ chunksRead = 0
    /\ \E model \in StreamingThirdPartyModels :
          LET text == GetThirdPartyHelpMessage(GetModelProvider(model), model)
          IN  input = [model |-> model, text |-> text, rest |-> Split(text, " ")]
    /\ output = NotDone
    /\ RouteIdle

\* createMockStream (lines 690-696) yields { text: () => word + ' ' } and
\* the loop of the route takes it
MockStreamRead ==
    /\ input.rest # <<>>
    /\ ReadChunk([shape |-> "textFn", text |-> Head(input.rest) \o <<" ">>,
                  parts |-> <<>>])
    /\ input' = [input EXCEPT !.rest = Tail(@)]
    /\ UNCHANGED <<output, routeVars>>

MockStreamWord == StreamWord /\ UNCHANGED <<pureVars, routeVars>>

\* the generator returns after its last word
MockStreamEnd ==
    /\ input.rest = <<>>
    /\ StreamEnd
    /\ UNCHANGED <<pureVars, routeVars>>

MockStreamNext == MockStreamRead \/ MockStreamWord \/ MockStreamEnd

SpecMockStream == MockStreamInit /\ [][MockStreamNext]_vars

\* C14: for a third-party model with streaming requested and supported, the
\* content deltas sent to the client, concatenated in order, are the text
\* the non-streaming call returns as message content for the same request.
C14_MockStreamRoundTrip ==
    streamPc = "ended" => ContentOf(frames) = input.text

-----------------------------------------------------------------------------
(* Status of a failed chat completion.                                     *)

\* the status the mapping by the four substrings gives a message
StatusByFourSubstrings(message) ==
    IF Includes(message, T_authentication) THEN 401
    ELSE IF Includes(message, T_quota) \/ Includes(message, T_rate_limit) THEN 429
    ELSE IF Includes(message, T_not_found) THEN 404
    ELSE 500

\* C15: a failure raised while a chat completion is processed is answered
\* with 401 when its message contains `authentication`, 429 when it contains
\* `quota` or `rate limit`, 404 when it contains `not found`, and 500 when
\* it contains none of the four.
C15_StatusBySubstring ==
    (pc = "done" /\ thrown # NoError) =>
        resp.status = StatusByFourSubstrings(thrown) /\ resp.body = "error"

-----------------------------------------------------------------------------
(* Function calls of a streamed native response.                           *)

\* names of the functions the tool-call frames written so far announce
RECURSIVE AnnouncedCalls(_)
AnnouncedCalls(fs) ==
    IF fs = <<>> THEN <<>> ELSE Head(fs).tool_calls \o AnnouncedCalls(Tail(fs))

\* C17: when the upstream has ended without failing, every function-call
\* part it yielded, in whatever position among its chunk's parts, has been
\* announced by a tool-call frame before the terminal frame, and the
\* terminal frame's finish_reason is tool_calls when there was one.
C17_EveryFunctionCallAnnounced ==
    (streamPc = "ended" /\ ~upstreamFailed) =>
        /\ Len(AnnouncedCalls(frames)) = upstreamCalls
        /\ upstreamCalls > 0 =>
              frames[Len(frames) - 1] = FinalFrame(<<"get_x">>)

-----------------------------------------------------------------------------
(* The caller disconnects during a streamed response: a res.write of the   *)
(* streaming branch throws inside its try block.                           *)

\* chunks of the stream the caller leaves: a text of two words, a text of
\* one word, a function call with a text, a function call alone
ClientChunks ==
    { [shape |-> "textFn", text |-> <<"a", " ", "a">>, parts |-> <<>>],
      [shape |-> "textProp", text |-> <<"a">>, parts |-> <<>>],
      [shape |-> "candidates", text |-> <<>>,
       parts |-> <<[text |-> <<"a">>, functionCall |-> "get_x"]>>],
      [shape |-> "candidates", text |-> <<>>,
       parts |-> <<[text |-> <<>>, functionCall |-> "get_x"]>>] }

\* the frames one iteration writes before its first await
WritesOfChunk(chunk) ==
    (IF ChunkToolCalls(chunk) # <<>>
     THEN <<ToolCallFrame(ChunkToolCalls(chunk))>> ELSE <<>>)
    \o (IF ChunkText(chunk) # <<>>
        THEN <<ContentFrame(Head(WordsOf(ChunkText(chunk))))>> ELSE <<>>)

\* a handler that would swallow the error and go on with the loop
AfterStreamError_Resuming(at) == at

\* catch (streamError) { logger.error(...); res.end(); }: where the handler
\* is after an error thrown at `at`
AfterStreamError(at) == "ended"

\* The j-th write of the pending writes throws: the ones before it were
\* sent, the catch block ends the response.
WriteFails(pending, j) ==
    /\ frames' = frames \o SubSeq(pending, 1, j - 1)
    /\ writeFailed' = TRUE
    /\ streamPc' = AfterStreamError(streamPc)
    /\ words' = <<>>
    /\ UNCHANGED <<toolCalls, upstreamFailed>>

\* a write of the iteration that reads a chunk throws
ChunkWriteFails(chunk) ==
    /\ streamPc = "loop" /\ words = <<>> /\ chunksRead < MaxChunks
    /\ \E j \in 1..Len(WritesOfChunk(chunk)) : WriteFails(WritesOfChunk(chunk), j)
    /\ upstreamText' = upstreamText \o CarriedText(chunk)
    /\ upstreamCalls' = upstreamCalls + Len(CarriedCalls(chunk))
    /\ chunksRead' = chunksRead + 1

\* the write of a later word throws
WordWriteFails ==
    /\ streamPc = "loop" /\ words # <<>>
    /\ WriteFails(<<ContentFrame(Head(words))>>, 1)
    /\ UNCHANGED <<upstreamText, upstreamCalls, chunksRead>>

\* the write of the final frame or of [DONE] throws
EndWriteFails ==
    /\ streamPc = "loop" /\ words = <<>>
    /\ \E j \in 1..2 : WriteFails(<<FinalFrame(toolCalls), DoneFrame>>, j)
    /\ UNCHANGED <<upstreamText, upstreamCalls, chunksRead>>

ClientNext ==
    /\ UNCHANGED <<pureVars, routeVars>>
    /\ \/ \E chunk \in ClientChunks : StreamRead(chunk)
       \/ StreamWord
       \/ StreamEnd
       \/ StreamThrow
       \/ \E chunk \in ClientChunks : ChunkWriteFails(chunk)
       \/ WordWriteFails
       \/ EndWriteFails

SpecStreamClient == StreamInit /\ [][ClientNext]_vars

\* C16: once a write to the client has failed (res.write threw), the
\* response is ended, the handler is not in its loop any more, and no
\* further frame, error frame or error response is written: the frames sent
\* never change again.
C16_NothingAfterWriteFailure ==
    /\ [](writeFailed => streamPc = "ended")
    /\ [][writeFailed => frames' = frames]_vars

\* a write failed after some frames had been sent, and the response is ended
C16_Witness == writeFailed /\ frames # <<>> /\ streamPc = "ended"

-----------------------------------------------------------------------------
(* The system message in the native contents.                              *)

SystemMessages(ms) == SelectSeq(ms, LAMBDA m : m.role = "system")
NonSystemMessages(ms) == SelectSeq(ms, LAMBDA m : m.role # "system")

\* the texts of the text parts of the contents, entry by entry
TextsOf(contents) ==
    [i \in 1..Len(contents) |->
        LET texts == SelectSeq(contents[i].parts, LAMBDA p : p.kind = "text")
        IN  IF texts = <<>> THEN <<>> ELSE texts[1].text]

\* C18: when the request's conversation has a system message and a user
\* message, the contents of the first backend call have one entry per
\* non-system message, the entry of the first user message has the text
\* <system text>\n\nUser: <user text>, and the system text occurs in that
\* entry only.
C18_SystemTextPrefixesFirstUser ==
    (/\ pc # "idle" /\ calls # <<>>
     /\ SystemMessages(req.messages.a) # <<>>
     /\ \E i \in 1..Len(req.messages.a) : req.messages.a[i].role = "user") =>
        LET system == ExtractMessageContent(SystemMessages(req.messages.a)[1])
            others == NonSystemMessages(req.messages.a)
            first == CHOOSE i \in 1..Len(others) :
                        /\ others[i].role = "user"
                        /\ \A j \in 1..(i - 1) : others[j].role # "user"
            texts == TextsOf(calls[1].contents)
        IN  /\ Len(texts) = Len(others)
            /\ texts[first] =
                  system \o UserSeparator \o ExtractMessageContent(others[first])
            /\ \A i \in 1..Len(texts) : i # first => ~Includes(texts[i], system)

-----------------------------------------------------------------------------
(* Arguments of an assistant tool call that are not JSON.                  *)

\* the function tool calls the translation of a conversation reads, in order
RECURSIVE TranslatedToolCalls(_)
TranslatedToolCalls(ms) ==
    IF ms = <<>> THEN <<>>
    ELSE LET m == Head(ms)
         IN  (IF m.role = "assistant" /\ Truthy(m.tool_calls)
              THEN SelectSeq(ToolCallsOf(m),
                             LAMBDA tc : tc.type = "function" /\ tc.hasFunction)
              ELSE <<>>)
             \o TranslatedToolCalls(Tail(ms))

\* the function-call parts of the contents of a backend call, in order
RECURSIVE FunctionCallParts(_)
FunctionCallParts(contents) ==
    IF contents = <<>> THEN <<>>
    ELSE SelectSeq(Head(contents).parts, LAMBDA p : p.kind = "functionCall")
         \o FunctionCallParts(Tail(contents))

\* one of the conversation's function tool calls has arguments that are
\* neither absent, empty nor a JSON text
HasBadArguments(ms) ==
    \E i \in 1..Len(TranslatedToolCalls(ms)) :
        TranslatedToolCalls(ms)[i].arguments \notin ({""} \cup ValidJson)

\* C19: a request whose conversation has an assistant tool call with
\* arguments that are not valid JSON fails with an error and no backend call
\* is issued for it; in the backend calls that are issued a function call's
\* args are the empty object only where the arguments string was absent,
\* empty or the JSON text of the empty object.
C19_BadArgumentsFailTranslation ==
    (pc # "idle" /\ req.messages.t = "array") =>
        /\ HasBadArguments(req.messages.a) =>
              calls = <<>> /\ thrown # NoError /\ resp.body = "error"
        /\ \A k \in 1..Len(calls) :
              LET sent == FunctionCallParts(calls[k].contents)
                  read == TranslatedToolCalls(req.messages.a)
              IN  /\ Len(sent) = Len(read)
                  /\ \A i \in 1..Len(sent) :
                        sent[i].args = EmptyObject =>
                            read[i].arguments \in {"", "{}"}

\* the request with the arguments `{bad` has ended in the SyntaxError of
\* JSON.parse without a backend call
C19_Witness ==
    /\ pc = "done" /\ req.messages.t = "array"
    /\ HasBadArguments(req.messages.a)
    /\ thrown = E_Json /\ calls = <<>>

-----------------------------------------------------------------------------
(* Rotation of the fallback selections.                                    *)

\* the names of the function tools a request declares
DeclaredNames(tools) ==
    {tools[i].name : i \in {j \in 1..Len(tools) : tools[j].type = "function"}}

\* C20: a fallback selection made by rotation (no contextual keyword match,
\* two or more tools) over tools of which one was not selected by any of the
\* 3 most recent prior selections selects a tool that none of those 3
\* selected, and does not advance the rotation index.
C20_RotationAvoidsRecentTools ==
    [][selections' = selections + 1 =>
          LET recent == RecentlyUsed(toolRotationState.toolUsageHistory)
              history == toolRotationState'.toolUsageHistory
          IN  DeclaredNames(req.tools.a) \ recent # {} =>
                  /\ history[Len(history)] \notin recent
                  /\ toolRotationState'.lastUsedToolIndex =
                        toolRotationState.lastUsedToolIndex]_vars

-----------------------------------------------------------------------------
(* The tool-usage history of one service instance over many fallback       *)
(* selections.                                                             *)

MaxRotations == 12

\* the tools of the requests whose fallback rotates
RotationTools ==
    {<<ReadFileTool, Tool("function", "get_weather")>>,
     <<Tool("function", "get_weather"), Tool("function", "builtin_list_directory")>>}

\* one call of convertOpenAIToolsToVertexFallback with a context that
\* matches no keyword
RotationSelect(tools) ==
    /\ selections < MaxRotations
    /\ LET fb == ConvertOpenAIToolsToVertexFallback(tools, Str(<<>>),
                                                    toolRotationState)
       IN  /\ toolRotationState' = fb.state
           /\ selections' = selections + 1
           /\ selectionLog' = Append(selectionLog, tools[fb.selected].name)
    /\ UNCHANGED <<pc, req, calls, resp, thrown, inflight, streamVars, pureVars>>

RotationNext == \E tools \in RotationTools : RotationSelect(tools)

SpecRotation == Init /\ [][RotationNext]_vars

\* the last n elements of a sequence, all of them when it has fewer
LastN(seq, n) ==
    IF Len(seq) <= n THEN seq ELSE SubSeq(seq, Len(seq) - n + 1, Len(seq))

\* C21: the usage history holds at most 10 entries, and they are the names
\* of the most recent recorded selections in the order they were made.
C21_HistoryIsLastTenSelections ==
    /\ Len(toolRotationState.toolUsageHistory) <= HistoryCap
    /\ toolRotationState.toolUsageHistory = LastN(selectionLog, HistoryCap)

\* more selections were recorded than the history keeps
C21_Witness ==
    /\ Len(selectionLog) > HistoryCap
    /\ Len(toolRotationState.toolUsageHistory) = HistoryCap


\* C22: after every fallback selection that leads to the retry, whether by
\* keyword match, priority rotation or index cycle and for any number of
\* declared tools, the name of the tool the retry declares is the newest
\* entry of the usage history.
C22_SelectionIsNewestHistoryEntry ==
    [][(pc = "call1" /\ pc' = "call2") =>
          LET history == toolRotationState'.toolUsageHistory
          IN  /\ history # <<>>
              /\ history[Len(history)] = calls'[2].declarations[1]]_vars

-----------------------------------------------------------------------------
(* Keyword match of the fallback selection.                                *)

\* the text of the latest user message of a conversation, '' without one
LatestUserText(ms) ==
    LET users == SelectSeq(ms, LAMBDA m : m.role = "user")
    IN  IF users = <<>> THEN <<>> ELSE ExtractMessageContent(users[Len(users)])

\* the rows of the keyword table of which the text contains a keyword
RowsMatching(text) ==
    {r \in 1..Len(ContextKeywords) :
        \E k \in ContextKeywords[r].keywords : Includes(ToLowerCase(text), k)}

\* C23: when the first call of a request with tools has failed with the
\* multiple-tools error, the text of the latest user message contains a
\* keyword of exactly one row of the keyword table and that row's tool is
\* declared, the retry is issued and declares that tool, whatever the
\* rotation state is.
C23_KeywordSelectsTool ==
    [][(/\ pc = "call1" /\ pc' # "call1"
        /\ HasTools(req.tools)
        /\ calls'[1].outcome = Failed(E_MultiTool)
        /\ Cardinality(RowsMatching(LatestUserText(req.messages.a))) = 1) =>
          LET row == CHOOSE r \in RowsMatching(LatestUserText(req.messages.a)) : TRUE
              name == ContextKeywords[row].name
          IN  FindFunctionTool(req.tools.a, name) # 0 =>
                  /\ pc' = "call2"
                  /\ calls'[2].declarations = <<name>>]_vars

-----------------------------------------------------------------------------
(* handleAutonomousContinuation: the conversation of the follow-up call.   *)

\* the text of generateContinuationPrompt, which no caller text contains
ContinuationPrompt == <<"!">>

\* handleAutonomousContinuation (chatRoutes.js lines 589-625): the messages
\* it hands to generateChatCompletion; the caller's array is copied by the
\* spread, never written
EnhancedMessages(ms, tools) ==
    LET analysis == AnalyzeTaskContinuation(ms, tools)
    IN  IF ~analysis.shouldContinue \/ ~analysis.hasTaskState THEN ms
        ELSE Append(ms, Msg("system", Str(ContinuationPrompt), Undefined, Undefined))

\* C24: when the heuristic indicates continuation for a conversation, the
\* contents translated for the follow-up call, with the autonomous system
\* message of a request with tools in front, contain the continuation
\* prompt.
C24_ContinuationPromptIsSent ==
    (output.done /\ output.shouldContinue) =>
        \E i \in 1..Len(input.messages) + 2 :
            LET contents == ProcessMessagesForVertexAI(
                                <<CreateAutonomousSystemMessage>>
                                \o EnhancedMessages(input.messages, input.tools))
            IN  /\ i <= Len(contents)
                /\ \E p \in 1..Len(contents[i].parts) :
                      Includes(contents[i].parts[p].text, ContinuationPrompt)

\* the heuristic has indicated continuation
C24_Continuation == output.done /\ output.shouldContinue

-----------------------------------------------------------------------------
(* calculateCompletionLevel over task types and numbers of tool results.   *)

MaxResults == 10

\* the task types analyzeTaskCompleteness can hold, and one it cannot
TaskTypes == {"debug_fix", "feature_add", "analysis", "refactor", "unknown"}

CompletionInit ==
    /\ input \in [taskType : TaskTypes, toolCount : 0..MaxResults]
    /\ output = NotDone
    /\ StreamIdle /\ RouteIdle

CallCalculateCompletionLevel ==
    /\ ~output.done
    /\ output' = [done |-> TRUE,
                  completionLevel |->
                      CalculateCompletionLevel(input.taskType, input.toolCount)]
    /\ UNCHANGED <<input, streamVars, routeVars>>

SpecCompletion == CompletionInit /\ [][CallCalculateCompletionLevel]_vars

\* the weight the claim gives a task type
ClaimedWeight(taskType) ==
    IF taskType \in {"debug_fix", "feature_add"} THEN 25
    ELSE IF taskType = "analysis" THEN 50
    ELSE 33

\* C25: the completion level is n * w when that is below 100 and 100
\* otherwise, n being the number of tool results and w the weight of the
\* task type; it is an integer from 0 to 100 and one more tool result never
\* lowers it.
C25_CompletionLevelSaturates ==
    output.done =>
        LET product == input.toolCount * ClaimedWeight(input.taskType)
        IN  /\ output.completionLevel = IF product < 100 THEN product ELSE 100
            /\ output.completionLevel \in 0..100
            /\ CalculateCompletionLevel(input.taskType, input.toolCount + 1)
                  >= output.completionLevel

\* the product is above 100 and the level is 100
C25_Witness ==
    /\ output.done
    /\ input.toolCount * ClaimedWeight(input.taskType) > 100
    /\ output.completionLevel = 100

-----------------------------------------------------------------------------
(* extractMessageContent over the shapes of a message's content.           *)

\* elements of a content array: strings, text parts, a part without text
ContentItems ==
    {Str(<<>>), Str(<<"a">>), Str(<<"a", " ">>), TextPart(<<"a">>), TextPart(<<>>),
     [t |-> "object", type |-> "image_url", text |-> Undefined]}

\* the contents a message can carry: absent, null, a string, an array, an
\* object with or without text and content
Contents ==
    {Undefined, Null}
    \cup {Str(t) : t \in Texts}
    \cup {Arr(items) : items \in SeqsUpTo(ContentItems, 2)}
    \cup {Obj(text, content) :
            text \in {Undefined, Str(<<>>), Str(<<"a">>)},
            content \in {Undefined, Str(<<>>), Str(<<"b">>)}}

ExtractInit ==
    /\ input \in {Msg("user", content, Undefined, Undefined) : content \in Contents}
    /\ output = NotDone
    /\ StreamIdle /\ RouteIdle

\* one call of extractMessageContent: the TypeError of line 9, or the text
CallExtractMessageContent ==
    /\ ~output.done
    /\ output' = IF ExtractThrows(input)
                 THEN [done |-> TRUE, threw |-> TRUE, text |-> <<>>]
                 ELSE [done |-> TRUE, threw |-> FALSE,
                       text |-> ExtractMessageContent(input)]
    /\ UNCHANGED <<input, streamVars, routeVars>>

SpecExtract == ExtractInit /\ [][CallExtractMessageContent]_vars

\* C26: extractMessageContent never throws; it returns '' for a content
\* that is null or absent, the string itself for a string, and for an
\* object its text when usable, else its content, else its JSON text.
C26_ExtractIsTotal ==
    output.done =>
        LET v == input.content
        IN  /\ ~output.threw
            /\ v \in {Undefined, Null} => output.text = <<>>
            /\ v.t = "string" => output.text = v.c
            /\ v.t = "object" =>
                  output.text = IF Truthy(v.text) THEN v.text.c
                                ELSE IF Truthy(v.content) THEN v.content.c
                                ELSE StringifiedObject(v)

-----------------------------------------------------------------------------
(* Content of the messages that are neither tool results nor tool calls.   *)

\* an assistant message that carries at least one tool call
CarriesToolCall(m) ==
    m.role = "assistant" /\ m.tool_calls.t = "array" /\ Len(m.tool_calls.a) > 0

\* content that is absent, null, '' or [], or neither a string nor an array
LacksContent(m) ==
    \/ m.content \in {Undefined, Null, Str(<<>>), Arr(<<>>)}
    \/ m.content.t \notin {"string", "array"}

\* C27: validateMessages throws for a conversation with a message that is
\* neither a tool message nor an assistant message with at least one tool
\* call and whose content is missing, empty, or neither a string nor an
\* array.
C27_ContentRequired ==
    (output.done /\ input.t = "array") =>
        ((\E i \in 1..Len(input.a) :
             /\ input.a[i].role # "tool"
             /\ ~CarriesToolCall(input.a[i])
             /\ LacksContent(input.a[i]))
         => output.result = "throw")

-----------------------------------------------------------------------------
(* The caller's system message in the contents of a request with tools.    *)

\* C28: when the request's conversation has a system message and its first
\* non-system message is a user message, the text of the caller's system
\* message occurs in the contents of every backend call of the request, with
\* tools declared or not.
C28_CallerSystemTextIsSent ==
    (/\ pc # "idle" /\ calls # <<>>
     /\ SystemMessages(req.messages.a) # <<>>
     /\ NonSystemMessages(req.messages.a) # <<>>
     /\ NonSystemMessages(req.messages.a)[1].role = "user") =>
        \A k \in 1..Len(calls) :
            \E i \in 1..Len(calls[k].contents) :
                Includes(TextsOf(calls[k].contents)[i],
                         ExtractMessageContent(SystemMessages(req.messages.a)[1]))

-----------------------------------------------------------------------------
(* toolConfig of the native model configuration.                           *)

\* C29: every backend call of a request is made with a configuration whose
\* toolConfig (a mode) is present only together with a tools entry of at
\* least one function declaration, and whose allowed function name, when
\* the mode is ANY, is the name of one of the declared functions.
C29_ToolConfigNeedsDeclarations ==
    \A k \in 1..Len(calls) :
        /\ calls[k].mode # "" => calls[k].declarations # <<>>
        /\ calls[k].mode = "ANY" =>
              /\ Len(calls[k].allowed) = 1
              /\ \E i \in 1..Len(calls[k].declarations) :
                    calls[k].declarations[i] = calls[k].allowed[1]


-----------------------------------------------------------------------------
(* Several requests in flight on the one service instance.  The handlers   *)
(* run on one thread and give way to each other only at an await: of the   *)
(* backend call (vertexService.js 127-131, 161-165).  The catch block      *)
(* between the rejection of the first call and the await of the retry      *)
(* (lines 133-160) holds no await, so it is one action.                    *)

MaxInFlight == 2

\* the tools and the latest user text of the requests in flight
FlightInputs ==
    {[tools |-> <<ReadFileTool, Tool("function", "get_weather")>>,
      context |-> Str(<<>>)],
     [tools |-> <<Tool("function", "get_weather"),
                  Tool("function", "builtin_list_directory")>>,
      context |-> Str(<<>>)],
     [tools |-> <<Tool("function", "get_weather"), ReadFileTool>>,
      context |-> Str(<<"r", "e", "a", "d">>)]}

\* a selection that works on the state as it was when its request arrived
RotationStateRead_Captured(flight, live) == flight.captured

\* this.toolRotationState as the selection reads it (lines 347, 366): the
\* field of the shared instance at the moment the selection runs
RotationStateRead(flight, live) == live

\* generateChatCompletion up to the await of the first backend call; turn
\* is the position of the request's selection among all selections, 0
\* before it has made one
RequestArrives(in) ==
    /\ Len(inflight) < MaxInFlight
    /\ inflight' = Append(inflight,
                          [pc |-> "call1", tools |-> in.tools,
                           context |-> in.context,
                           captured |-> toolRotationState, turn |-> 0])
    /\ UNCHANGED <<toolRotationState, selections, selectionLog>>
    /\ UNCHANGED <<pc, req, calls, resp, thrown, streamVars, pureVars>>

\* the first call of request i resolves
FlightFirstCallReturns(i) ==
    /\ inflight[i].pc = "call1"
    /\ inflight' = [inflight EXCEPT ![i].pc = "done"]
    /\ UNCHANGED <<toolRotationState, selections, selectionLog>>
    /\ UNCHANGED <<pc, req, calls, resp, thrown, streamVars, pureVars>>

\* the first call of request i rejects with the multiple-tools error: the
\* catch block selects the fallback tool and issues the retry
FlightFirstCallFails(i) ==
    /\ inflight[i].pc = "call1"
    /\ LET fb == ConvertOpenAIToolsToVertexFallback(
                     inflight[i].tools, inflight[i].context,
                     RotationStateRead(inflight[i], toolRotationState))
       IN  /\ toolRotationState' = fb.state
           /\ selections' = selections + 1
           /\ selectionLog' =
                  Append(selectionLog, inflight[i].tools[fb.selected].name)
           /\ inflight' = [inflight EXCEPT ![i].pc = "call2",
                                           ![i].turn = selections + 1]
    /\ UNCHANGED <<pc, req, calls, resp, thrown, streamVars, pureVars>>

\* the retry of request i settles
FlightSecondCallSettles(i) ==
    /\ inflight[i].pc = "call2"
    /\ inflight' = [inflight EXCEPT ![i].pc = "done"]
    /\ UNCHANGED <<toolRotationState, selections, selectionLog>>
    /\ UNCHANGED <<pc, req, calls, resp, thrown, streamVars, pureVars>>

InFlightNext ==
    \/ \E in \in FlightInputs : RequestArrives(in)
    \/ \E i \in 1..Len(inflight) : FlightFirstCallReturns(i)
    \/ \E i \in 1..Len(inflight) : FlightFirstCallFails(i)
    \/ \E i \in 1..Len(inflight) : FlightSecondCallSettles(i)

SpecInFlight == Init /\ [][InFlightNext]_vars

\* the request that made the k-th selection
FlightOfTurn(k) == inflight[CHOOSE i \in 1..Len(inflight) : inflight[i].turn = k]

\* the first k selections made one after the other, each from start to end,
\* on a fresh instance: the rotation state they leave and the names they
\* select
RECURSIVE SerialSelections(_)
SerialSelections(k) ==
    IF k = 0 THEN [state |-> NewToolRotationState, log |-> <<>>]
    ELSE LET before == SerialSelections(k - 1)
             flight == FlightOfTurn(k)
             fb == ConvertOpenAIToolsToVertexFallback(
                       flight.tools, flight.context, before.state)
         IN  [state |-> fb.state,
              log |-> Append(before.log, flight.tools[fb.selected].name)]

\* C30: with several requests in flight on one instance, the usage history,
\* the rotation index and the tools selected are those of the same
\* selections made one at a time in the order in which they ran, so no
\* selection works on a state another one has since changed and none is lost.
C30_SelectionsAreSerial ==
    /\ toolRotationState = SerialSelections(selections).state
    /\ selectionLog = SerialSelections(selections).log

\* two requests were in flight together, the later one selected first, and
\* both selections rotated up to the index cycle
C30_Witness ==
    /\ Len(inflight) >= 2
    /\ inflight[1].turn > 0 /\ inflight[2].turn > 0
    /\ inflight[2].turn < inflight[1].turn
    /\ toolRotationState.lastUsedToolIndex >= 0
    /\ Len(toolRotationState.toolUsageHistory) >= 2

====
